---- MODULE Spec2Model ----
(***************************************************************************)
(* Model of the folder-loading Discord client of src/src/index.ts (lines   *)
(* 1-654): the definition registries, the default interaction handler,     *)
(* the differential registration of login and the directory loader.        *)
(***************************************************************************)
EXTENDS Integers, Sequences, FiniteSets, TLC

VARIABLES
    files,          \* the file system: path -> exported definition (or a directory)
    modules,        \* the module cache: path -> the (mutable) default export
    commands,       \* Client.commands, an insertion-ordered Map name -> module
    ctxUser,        \* Client.contextMenus.User
    ctxMessage,     \* Client.contextMenus.Message
    modals,         \* Client.modals
    pending,        \* the asynchronous loads that have not settled yet
    rejected,       \* the asynchronous loads whose promise was rejected
    calls,          \* the load calls made in this process lifetime
    handlers,       \* number of interactionCreate listeners installed
    cur,            \* the interaction of the last emission
    runs,           \* what each listener did for the last emission
    subscriptions,  \* the listeners added to the platform client's emitter, in order
    emissions,      \* the events the platform emitted and what each listener received
    store,          \* the value persisted under %registered_applications%
    env,            \* process.env and the session of the platform client
    login,          \* the position and the observations of the login in progress
    lifetime,       \* the process lifetime (the store outlives it)
    exited,         \* process.exit was called
    stalled         \* the interactions whose listener awaits an executor for ever

vars == <<files, modules, commands, ctxUser, ctxMessage, modals, pending,
          rejected, calls, handlers, cur, runs, subscriptions, emissions,
          store, env, login, lifetime, exited, stalled>>

Null == "null"

(***************************************************************************)
(* Bounds                                                                  *)
(***************************************************************************)
MaxHandlers == 2
MaxLoadCalls == 2
MaxLogins == 2
MaxLifetimes == 2
MaxSubscriptions == 2
MaxEmissions == 3
MaxStalled == 2

(***************************************************************************)
(* Insertion-ordered Map: a sequence of <<key, value>> pairs.              *)
(***************************************************************************)
MapHas(m, key) == \E k \in DOMAIN m : m[k][1] = key

\* what Map.get gives for an absent key (values are module paths)
Nil == <<>>

MapGet(m, key) ==
    IF MapHas(m, key)
    THEN m[CHOOSE k \in DOMAIN m : m[k][1] = key][2]
    ELSE Nil

\* Map.set that keeps the entry already present under the key
MapSetKeepFirst(m, key, value) ==
    IF MapHas(m, key) THEN m ELSE Append(m, <<key, value>>)

\* Map.set: the value under a key already present is replaced in place
MapSet(m, key, value) ==
    IF MapHas(m, key)
    THEN [k \in DOMAIN m |-> IF m[k][1] = key THEN <<key, value>> ELSE m[k]]
    ELSE Append(m, <<key, value>>)

MapKeys(m) == {m[k][1] : k \in DOMAIN m}

(***************************************************************************)
(* Permissions                                                             *)
(***************************************************************************)
Flags == {"Administrator", "ManageGuild"}

\* PermissionsBitField.has(required), checkAdmin defaulting to true
Has(memberPerms, required) ==
    "Administrator" \in memberPerms \/ required \subseteq memberPerms


\* "permissions" left out of a definition
NoPerm == {Null}

(***************************************************************************)
(* Definitions (the default exports of the definition files)               *)
(***************************************************************************)
\* execute: "user" (written in the file), "synth" (generated by
\* loadSubcommand) or Null; subcommands / subcommandGroups: Maps name ->
\* module (<<>> also stands for a Map that is not there yet); options: the
\* builder's option list; description: a string as its characters;
\* autocomplete: "user" or Null; buttons / selectMenus / modals: the keys of
\* the handler object, or NoHandlers when the field is left out.
NoHandlers == {Null}

BaseDef ==
    [interface |-> Null, name |-> Null, description |-> <<>>,
     permissions |-> NoPerm, execute |-> "user", type |-> Null,
     subcommands |-> <<>>, subcommandGroups |-> <<>>, options |-> <<>>,
     defaultMemberPermissions |-> NoPerm,
     autocomplete |-> Null, buttons |-> NoHandlers, selectMenus |-> NoHandlers,
     modals |-> NoHandlers, once |-> FALSE]

EventData(name, once) ==
    [BaseDef EXCEPT !.interface = "EventData", !.name = name, !.once = once]

CommandData(name, perms) ==
    [BaseDef EXCEPT !.interface = "CommandData", !.name = name, !.permissions = perms]

SubcommandIndexData(name, perms, execute) ==
    [BaseDef EXCEPT !.interface = "SubcommandIndexData", !.name = name,
                    !.permissions = perms, !.execute = execute]

SubcommandGroupData(name) ==
    [BaseDef EXCEPT !.interface = "SubcommandGroupData", !.name = name, !.execute = Null]

SubcommandData(name) ==
    [BaseDef EXCEPT !.interface = "SubcommandData", !.name = name]

ContextMenuData(name, type, perms) ==
    [BaseDef EXCEPT !.interface = "ContextMenuData", !.name = name, !.type = type,
                    !.permissions = perms]

ModalData(name) ==
    [BaseDef EXCEPT !.interface = "ModalData", !.name = name]

(***************************************************************************)
(* One run of the interaction listener.  A run threads the interaction's   *)
(* reply state, the messages sent through it, the executors invoked, what  *)
(* was logged, and whether an exception is in flight.                      *)
(***************************************************************************)
FreshState == [deferred |-> FALSE, replied |-> FALSE, responded |-> FALSE]

\* handled: the autocomplete executors and component handlers invoked;
\* awaiting: the listener is suspended on a promise that never settles;
\* responded: the option lists given to interaction.respond
StartRun(st) ==
    [st |-> st, sent |-> <<>>, invoked |-> <<>>, logged |-> <<>>, thrown |-> FALSE,
     handled |-> <<>>, responded |-> <<>>, awaiting |-> FALSE]

Acked(st) == st.deferred \/ st.replied

Throw(r) == [r EXCEPT !.thrown = TRUE]

\* this.logger.error(error)
LogError(r, what) == [r EXCEPT !.logged = Append(@, what)]

Message(content, subject) ==
    [op |-> Null, content |-> content, subject |-> subject, ephemeral |-> TRUE]

\* interaction.reply of the platform: refuses an acknowledged interaction
InteractionReply(r, msg) ==
    IF r.thrown THEN r
    ELSE IF Acked(r.st) THEN Throw(r)
    ELSE [r EXCEPT !.sent = Append(@, [msg EXCEPT !.op = "reply"]),
                   !.st.replied = TRUE]

\* interaction.editReply of the platform: needs an acknowledged interaction
InteractionEditReply(r, msg) ==
    IF r.thrown THEN r
    ELSE IF ~Acked(r.st) THEN Throw(r)
    ELSE [r EXCEPT !.sent = Append(@, [msg EXCEPT !.op = "editReply"]),
                   !.st.replied = TRUE]

\* the exported reply helper, with the deferred/replied test left out
replyNoStateTest(r, msg) == InteractionReply(r, msg)

\* the exported reply helper
reply(r, msg) ==
    IF Acked(r.st) THEN InteractionEditReply(r, msg)
    ELSE InteractionReply(r, msg)

(***************************************************************************)
(* Executors are user code: what one does to the interaction before it     *)
(* returns, and whether it fails.                                          *)
(***************************************************************************)
Behaviours == [ack : {"none", "defer", "reply"}, fails : BOOLEAN]

\* an executor whose promise never settles; a behaviour without the field returns
Hangs(beh) == "hangs" \in DOMAIN beh /\ beh.hangs

UserMessage == [op |-> "reply", content |-> "user", subject |-> Null, ephemeral |-> FALSE]

\* await <definition>.execute(client, interaction) for an executor written by the user
UserExecute(r, path, beh) ==
    IF r.thrown THEN r
    ELSE
    LET r1 == [r EXCEPT !.invoked = Append(@, [module |-> path, fn |-> "execute", synth |-> FALSE])]
    IN  IF beh.ack # "none" /\ Acked(r1.st) THEN Throw(r1)
        ELSE
        LET r2 == CASE beh.ack = "defer" -> [r1 EXCEPT !.st.deferred = TRUE]
                    [] beh.ack = "reply" -> [r1 EXCEPT !.st.replied = TRUE,
                                                       !.sent = Append(@, UserMessage)]
                    [] OTHER -> r1
        IN  IF Hangs(beh) THEN [r2 EXCEPT !.awaiting = TRUE]
            ELSE [r2 EXCEPT !.thrown = beh.fails]


(***************************************************************************)
(* The default interaction handler                                         *)
(***************************************************************************)
\* a try without its catch: the failure goes on to the caller
Uncaught(r) == r

\* try { ... } catch (error) { ... }: the failure stops here
Caught(r) == [r EXCEPT !.thrown = FALSE]

InvokedSynth(r, path) ==
    [r EXCEPT !.invoked = Append(@, [module |-> path, fn |-> "execute", synth |-> TRUE])]

\* subcommand lookup that falls back to the direct subcommands
ResolveSubcommandAnywhere(index, groupName, name) ==
    LET g == MapGet(index.subcommandGroups, groupName)
        inGroup == IF groupName = Null \/ g = Nil THEN Nil
                   ELSE MapGet(modules[g].subcommands, name)
    IN  IF inGroup # Nil THEN inGroup ELSE MapGet(index.subcommands, name)

\* the lookup of the synthesized executor
ResolveSubcommand(index, groupName, name) ==
    IF groupName # Null
    THEN LET g == MapGet(index.subcommandGroups, groupName)
         IN  IF g = Nil THEN Nil ELSE MapGet(modules[g].subcommands, name)
    ELSE MapGet(index.subcommands, name)

\* the executor loadSubcommand generates for an index
SynthExecute(r, indexPath, i, beh) ==
    IF r.thrown THEN r
    ELSE
    LET r1 == InvokedSynth(r, indexPath)
    IN  IF i.subcommand = Null THEN Throw(r1)    \* options.getSubcommand() requires one
        ELSE
        LET sub == ResolveSubcommand(modules[indexPath], i.group, i.subcommand)
        IN  IF sub = Nil
            THEN reply(r1, Message("SubcommandNotFound", i.subcommand))
            ELSE LET r2 == UserExecute(r1, sub, beh)
                 IN  IF r2.thrown
                     THEN reply(LogError(Caught(r2), "subcommand"), Message("CommandError", Null))
                     ELSE r2

\* command.execute!(client, interaction)
ExecuteCommand(r, path, i, beh) ==
    CASE modules[path].execute = "synth" -> SynthExecute(r, path, i, beh)
      [] modules[path].execute = "user"  -> UserExecute(r, path, beh)
      [] OTHER -> Throw(r)

\* the not-found reply, without the ephemeral flag
CommandNotFoundPublic(name) == [Message("CommandNotFound", name) EXCEPT !.ephemeral = FALSE]

CommandNotFound(name) == Message("CommandNotFound", name)

\* the permission test applied whatever the origin
PermissionCheckAlways(i) == TRUE

\* if (interaction.inGuild())
PermissionCheckApplies(i) == i.inGuild

\* the chat-input branch that goes on to the executor after the
\* no-permission reply
HandleChatInputWithoutReturn(r, i, beh) ==
    LET path == MapGet(commands, i.commandName)
    IN  IF path = Nil
        THEN InteractionReply(r, CommandNotFound(i.commandName))
        ELSE
        LET r0 == IF /\ PermissionCheckApplies(i)
                     /\ modules[path].permissions # NoPerm
                     /\ ~Has(i.memberPerms, modules[path].permissions)
                  THEN InteractionReply(r, Message("NoPermissionCommand", Null))
                  ELSE r
            r1 == ExecuteCommand(r0, path, i, beh)
        IN  IF r1.thrown
            THEN reply(LogError(Caught(r1), "command"), Message("CommandError", Null))
            ELSE r1

\* if (interaction.isChatInputCommand()) { ... }
HandleChatInput(r, i, beh) ==
    LET path == MapGet(commands, i.commandName)
    IN  IF path = Nil
        THEN InteractionReply(r, CommandNotFound(i.commandName))
        ELSE
        IF /\ PermissionCheckApplies(i)
           /\ modules[path].permissions # NoPerm
           /\ ~Has(i.memberPerms, modules[path].permissions)
        THEN InteractionReply(r, Message("NoPermissionCommand", Null))
        ELSE LET r1 == ExecuteCommand(r, path, i, beh)
             IN  IF r1.thrown
                 THEN reply(LogError(Caught(r1), "command"), Message("CommandError", Null))
                 ELSE r1

\* one registry of context menus for both types
ContextRegistryShared(kind) == ctxUser \o ctxMessage

\* client.contextMenus[type], type being "User" or "Message"
ContextRegistry(kind) == IF kind = "UserContextMenu" THEN ctxUser ELSE ctxMessage

HandleContextMenu(r, i, beh) ==
    LET registry == ContextRegistry(i.kind)
        path == MapGet(registry, i.commandName)
    IN  IF path = Nil
        THEN InteractionReply(r, Message("ContextNotFound", i.commandName))
        ELSE
        IF modules[path].permissions # NoPerm /\ ~i.inGuild
        THEN Throw(r)                  \* member is null: undefined.has(...)
        ELSE
        IF modules[path].permissions # NoPerm /\ ~Has(i.memberPerms, modules[path].permissions)
        THEN InteractionReply(r, Message("NoPermissionContext", Null))
        ELSE LET r1 == UserExecute(r, path, beh)
             IN  IF r1.thrown
                 THEN reply(LogError(Caught(r1), "context"), Message("ContextError", Null))
                 ELSE r1

\* interaction.respond(options) of the platform: refuses a second response
Respond(r, options) ==
    IF r.thrown THEN r
    ELSE IF r.st.responded THEN Throw(r)
    ELSE [r EXCEPT !.responded = Append(@, options), !.st.responded = TRUE]

\* [{ name: "ERROR", value: "autocompleteNotFound" }]
Sentinel == <<[name |-> "ERROR", value |-> "autocompleteNotFound"]>>

UserChoices == <<[name |-> "user", value |-> "user"]>>

\* await autocomplete(client, interaction) for an executor written by the
\* user: it responds unless beh.ack is "none", and fails or not
UserAutocomplete(r, path, beh) ==
    LET r1 == [r EXCEPT !.handled = Append(@, [module |-> path, fn |-> "autocomplete",
                                               key |-> Null, args |-> <<>>])]
        r2 == IF beh.ack = "none" THEN r1 ELSE Respond(r1, UserChoices)
    IN  IF r2.thrown THEN r2 ELSE [r2 EXCEPT !.thrown = beh.fails]

\* the autocomplete executor the dispatcher finds for (subcommand, group):
\* the module that carries it, or Nil
ResolveAutocomplete(command, group, subcommand) ==
    LET sub == IF subcommand = Null THEN Nil
               ELSE ResolveSubcommand(command, group, subcommand)
    IN  IF sub = Nil THEN Nil
        ELSE IF modules[sub].autocomplete = Null THEN Nil ELSE sub

HandleAutocomplete(r, i, beh) ==
    LET path == MapGet(commands, i.commandName)
    IN  IF path = Nil THEN r                            \* if (!command) return;
        ELSE LET owner == ResolveAutocomplete(modules[path], i.group, i.subcommand)
             IN  IF owner = Nil THEN Respond(r, Sentinel)
                 ELSE LET r1 == UserAutocomplete(r, owner, beh)
                      IN  IF r1.thrown THEN LogError(Caught(r1), "autocomplete") ELSE r1

\* args[k] of the code (0-based): undefined beyond the end
Seg(args, k) == IF k + 1 <= Len(args) THEN args[k + 1] ELSE Null

\* args.slice(n) with the handler id kept in
ArgsFromHandlerId(args, n) == SubSeq(args, n, Len(args))

\* args.slice(n)
ArgsSlice(args, n) == SubSeq(args, n + 1, Len(args))

\* args.shift(); ...args.slice(1) of the flat modal branch
ModalArgs(args) == ArgsSlice(Tail(args), 1)

\* the field looked into, were it the same for every kind
LookupAlwaysButtons(kind) == "buttons"

\* isAnySelectMenu / isModalSubmit / isButton -> the field looked into
LookupOf(kind) ==
    CASE kind = "SelectMenu" -> "selectMenus"
      [] kind = "ModalSubmit" -> "modals"
      [] OTHER -> "buttons"

\* definition[lookup]?.[key] on an object literal: "handler" for a key of the
\* object, what Object.prototype gives for an inherited name ("function" for
\* constructor, "object" for __proto__), Null for undefined
HandlerOf(def, lookup, key) ==
    IF def[lookup] = NoHandlers THEN Null
    ELSE IF key \in def[lookup] THEN "handler"
    ELSE IF key = "constructor" THEN "function"
    ELSE IF key = "__proto__" THEN "object"
    ELSE Null

\* await <handler>(client, interaction, ...args) for a handler written by the user
UserHandle(r, path, fn, key, args, beh) ==
    LET r1 == [r EXCEPT !.handled = Append(@, [module |-> path, fn |-> fn,
                                               key |-> key, args |-> args])]
    IN  IF beh.ack # "none" /\ Acked(r1.st) THEN Throw(r1)
        ELSE
        LET r2 == CASE beh.ack = "defer" -> [r1 EXCEPT !.st.deferred = TRUE]
                    [] beh.ack = "reply" -> [r1 EXCEPT !.st.replied = TRUE,
                                                       !.sent = Append(@, UserMessage)]
                    [] OTHER -> r1
        IN  [r2 EXCEPT !.thrown = beh.fails]

\* a handler lookup that gives up on an interaction that was acknowledged
InvokeHandlerUnlessAcked(r, path, lookup, key, args, beh) ==
    LET i == HandlerOf(modules[path], lookup, key)
        r1 == CASE Acked(r.st) -> r
                [] i = "handler" -> UserHandle(r, path, lookup, key, args, beh)
                [] i = "object" -> Throw(r)
                [] OTHER -> r
    IN  IF r1.thrown THEN LogError(Caught(r1), "component") ELSE r1

\* const i = definition[lookup]?.[key]; if (!i) return;
\* try { await i(client, interaction, ...args) } catch (error) { this.logger.error(error) }
InvokeHandler(r, path, lookup, key, args, beh) ==
    LET i == HandlerOf(modules[path], lookup, key)
        r1 == CASE i = "handler" -> UserHandle(r, path, lookup, key, args, beh)
                [] i = "object" -> Throw(r)             \* i is not a function
                [] OTHER -> r
    IN  IF r1.thrown THEN LogError(Caught(r1), "component") ELSE r1

\* component routing that tests the permissions of the owning command first
HandleComponentWithPermissionTest(r, i, beh) ==
    LET owner == MapGet(commands, Seg(i.customId, 0))
    IN  IF /\ owner # Nil /\ i.inGuild
           /\ modules[owner].permissions # NoPerm
           /\ ~Has(i.memberPerms, modules[owner].permissions)
        THEN InteractionReply(r, Message("NoPermissionCommand", Null))
        ELSE
        LET args == i.customId
            lookup == LookupOf(i.kind)
            path == MapGet(commands, Seg(args, 0))
        IN  IF path = Nil
            THEN IF i.kind # "ModalSubmit" THEN r
                 ELSE LET modal == MapGet(modals, Seg(args, 0))
                      IN  IF modal = Nil THEN r
                          ELSE LET r1 == UserHandle(r, modal, "execute", Null, ModalArgs(args), beh)
                               IN  IF r1.thrown THEN LogError(Caught(r1), "modal") ELSE r1
            ELSE
            IF modules[path].interface = "CommandData"
            THEN InvokeHandler(r, path, lookup, Seg(args, 1), ArgsSlice(args, 2), beh)
            ELSE
            LET group == MapGet(modules[path].subcommandGroups, Seg(args, 1))
            IN  IF group # Nil
                THEN LET subcommand == MapGet(modules[group].subcommands, Seg(args, 2))
                     IN  IF subcommand = Nil THEN r
                         ELSE InvokeHandler(r, subcommand, lookup, Seg(args, 3),
                                            ArgsSlice(args, 4), beh)
                ELSE LET subcommand == MapGet(modules[path].subcommands, Seg(args, 1))
                     IN  IF subcommand = Nil THEN r
                         ELSE InvokeHandler(r, subcommand, lookup, Seg(args, 2),
                                            ArgsSlice(args, 3), beh)

HandleComponent(r, i, beh) ==
    LET args == i.customId
        lookup == LookupOf(i.kind)
        path == MapGet(commands, Seg(args, 0))
    IN  IF path = Nil
        THEN IF i.kind # "ModalSubmit" THEN r
             ELSE LET modal == MapGet(modals, Seg(args, 0))
                  IN  IF modal = Nil THEN r
                      ELSE LET r1 == UserHandle(r, modal, "execute", Null, ModalArgs(args), beh)
                           IN  IF r1.thrown THEN LogError(Caught(r1), "modal") ELSE r1
        ELSE
        IF modules[path].interface = "CommandData"
        THEN InvokeHandler(r, path, lookup, Seg(args, 1), ArgsSlice(args, 2), beh)
        ELSE
        LET group == MapGet(modules[path].subcommandGroups, Seg(args, 1))
        IN  IF group # Nil
            THEN LET subcommand == MapGet(modules[group].subcommands, Seg(args, 2))
                 IN  IF subcommand = Nil THEN r
                     ELSE InvokeHandler(r, subcommand, lookup, Seg(args, 3),
                                        ArgsSlice(args, 4), beh)
            ELSE LET subcommand == MapGet(modules[path].subcommands, Seg(args, 1))
                 IN  IF subcommand = Nil THEN r
                     ELSE InvokeHandler(r, subcommand, lookup, Seg(args, 2),
                                        ArgsSlice(args, 3), beh)

\* the listener installed by useDefaultInteractionHandler
Listener(r, i, beh) ==
    CASE i.kind = "ChatInput" -> HandleChatInput(r, i, beh)
      [] i.kind \in {"UserContextMenu", "MessageContextMenu"} -> HandleContextMenu(r, i, beh)
      [] i.kind = "Autocomplete" -> HandleAutocomplete(r, i, beh)
      [] i.kind \in {"SelectMenu", "ModalSubmit", "Button"} -> HandleComponent(r, i, beh)
      [] OTHER -> r

\* an installation that replaces the listener installed before
ListenersReplacingPrevious(n, st, i, beh) ==
    IF n = 0 THEN <<>> ELSE <<Listener(StartRun(st), i, beh)>>

\* the listeners run one after the other on the same interaction object
RECURSIVE Listeners(_, _, _, _)
Listeners(n, st, i, beh) ==
    IF n = 0 THEN <<>>
    ELSE LET r == Listener(StartRun(st), i, beh)
         IN  <<r>> \o Listeners(n - 1, r.st, i, beh)


(***************************************************************************)
(* The file system and URLs.  A path is its sequence of segments; a URL is *)
(* a path and whether it was written with a trailing slash.                *)
(***************************************************************************)
FileEntry(def) == [type |-> "file", def |-> def]

DirEntry == [type |-> "dir", def |-> BaseDef]

URL(path, slash) == [path |-> path, slash |-> slash]

Front(q) == SubSeq(q, 1, Len(q) - 1)

\* new URL(name, base): the last segment of the base is replaced unless the
\* base ends with a slash
NewURL(name, base) ==
    URL((IF base.slash THEN base.path ELSE Front(base.path)) \o <<name>>, FALSE)

\* url + "/" + name
Concat(base, name) == URL(base.path \o <<name>>, FALSE)

\* url + "/"
WithSlash(base) == URL(base.path, TRUE)

IsDir(path) == path \in DOMAIN files /\ files[path].type = "dir"

IsFile(path) == path \in DOMAIN files /\ files[path].type = "file"

\* readdirSync(url, { withFileTypes: true }): the names in the directory
ReadDir(path) ==
    {q[Len(q)] : q \in {f \in DOMAIN files : Len(f) = Len(path) + 1 /\ Front(f) = path}}

IgnoredNames == {"_hidden.js", "_x.js", "_draft"}

\* the filter that lets every name through
isValidRegexAlways(name) == TRUE

\* dirent.isValidRegex(file): the name does not start with an underscore
isValidRegex(name) == name \notin IgnoredNames

\* import(path): the module cache after the import
Imported(path) ==
    IF path \in DOMAIN modules THEN modules
    ELSE modules @@ (path :> files[path].def)

\* data.setDefaultMemberPermissions(permissions.bitfield), when permissions is set
WithDefaultPermissions(def) ==
    IF def.permissions # NoPerm
    THEN [def EXCEPT !.defaultMemberPermissions = def.permissions]
    ELSE def

\* a load call: the function, its argument, and how many such calls came before
Call(fn, url) ==
    [fn |-> fn, url |-> url,
     n |-> Cardinality({c \in calls : c.fn = fn /\ c.url = url})]

Task(call, op, path, owner) == [call |-> call, op |-> op, path |-> path, owner |-> owner]


registryVars == <<modules, commands, ctxUser, ctxMessage, modals>>

eventVars == <<subscriptions, emissions>>

dispatchVars == <<handlers, cur, runs, subscriptions, emissions, stalled>>

loginVars == <<store, env, login, lifetime>>

(***************************************************************************)
(* The directory loader.  The load functions start their imports and       *)
(* return; every import settles later, in any order.                       *)
(***************************************************************************)
\* loadCommandsFrom(url)
LoadCommandsFrom(url) ==
    /\ ~exited
    /\ Cardinality(calls) < MaxLoadCalls
    /\ IsDir(url.path)
    /\ calls' = calls \cup {Call("loadCommandsFrom", url)}
    /\ pending' = pending \cup
          {Task(Call("loadCommandsFrom", url),
                IF IsDir(url.path \o <<name>>) THEN "loadSubcommand" ELSE "loadCommand",
                NewURL(name, url).path, Nil) :
               name \in {n \in ReadDir(url.path) : isValidRegex(n)}}
    /\ UNCHANGED <<files, registryVars, rejected, dispatchVars, loginVars, exited>>

\* the files dirent.iterateOver visits under a directory
ActiveUnder(root) ==
    {f \in DOMAIN files :
        /\ IsFile(f)
        /\ Len(f) > Len(root)
        /\ SubSeq(f, 1, Len(root)) = root
        /\ \A k \in (Len(root) + 1)..Len(f) : isValidRegex(f[k])}

\* loadContextMenusFrom(url)
LoadContextMenusFrom(url) ==
    /\ ~exited
    /\ Cardinality(calls) < MaxLoadCalls
    /\ IsDir(url.path)
    /\ calls' = calls \cup {Call("loadContextMenusFrom", url)}
    /\ pending' = pending \cup {Task(Call("loadContextMenusFrom", url), "contextMenu", f, Nil) :
                                 f \in ActiveUnder(url.path)}
    /\ UNCHANGED <<files, registryVars, rejected, dispatchVars, loginVars, exited>>

\* loadModalsFrom(url)
LoadModalsFrom(url) ==
    /\ ~exited
    /\ Cardinality(calls) < MaxLoadCalls
    /\ IsDir(url.path)
    /\ calls' = calls \cup {Call("loadModalsFrom", url)}
    /\ pending' = pending \cup {Task(Call("loadModalsFrom", url), "modal", f, Nil) :
                                 f \in ActiveUnder(url.path)}
    /\ UNCHANGED <<files, registryVars, rejected, dispatchVars, loginVars, exited>>

\* the import of a load fails: its promise is rejected
Rejects(t) ==
    /\ pending' = pending \ {t}
    /\ rejected' = rejected \cup {t}
    /\ UNCHANGED registryVars

\* an insertion that puts the definition in front of the registry
RegisterCommandInFront(name, path) ==
    <<<<name, path>>>> \o SelectSeq(commands, LAMBDA e : e[1] # name)

\* this.commands.set(name, definition)
RegisterCommand(name, path) == MapSet(commands, name, path)

\* loadCommand(url), from the import on
LoadCommandSettles(t) ==
    /\ ~exited
    /\ t \in pending /\ t.op = "loadCommand"
    /\ IF ~IsFile(t.path) THEN Rejects(t)
       ELSE LET command == WithDefaultPermissions(Imported(t.path)[t.path])
            IN  /\ modules' = [Imported(t.path) EXCEPT ![t.path] = command]
                /\ commands' = RegisterCommand(command.name, t.path)
                /\ pending' = pending \ {t}
                /\ UNCHANGED <<ctxUser, ctxMessage, modals, rejected>>
    /\ UNCHANGED <<files, calls, dispatchVars, loginVars, exited>>

\* index.execute = <the synthesized executor>, whatever was there
AlwaysSynthesizedExecutor(def) == [def EXCEPT !.execute = "synth"]

\* index.execute ??= <the synthesized executor>
WithSynthesizedExecutor(def) ==
    IF def.execute = Null THEN [def EXCEPT !.execute = "synth"] ELSE def

\* a loader that leaves the insertion of the index for later
InsertIndexLater(name, path) == commands

\* this.commands.set(index.data.name, index), reached as soon as the forEach
\* has started the imports of the subcommands
InsertIndex(name, path) == RegisterCommand(name, path)

\* loadSubcommand(url), from the import of the index on
LoadSubcommandSettles(t) ==
    /\ ~exited
    /\ t \in pending /\ t.op = "loadSubcommand"
    /\ LET indexPath == Concat(URL(t.path, FALSE), "index.js").path
       IN  IF ~IsFile(indexPath) \/ ~IsDir(t.path) THEN Rejects(t)
           ELSE LET index == WithSynthesizedExecutor(
                                 WithDefaultPermissions(Imported(indexPath)[indexPath]))
                    names == {n \in ReadDir(t.path) : n # "index.js" /\ isValidRegex(n)}
                IN  /\ modules' = [Imported(indexPath) EXCEPT ![indexPath] = index]
                    /\ commands' = InsertIndex(index.name, indexPath)
                    /\ pending' = (pending \ {t}) \cup
                          {[call |-> t.call,
                            op |-> IF IsDir(t.path \o <<n>>) THEN "group" ELSE "subcommand",
                            path |-> NewURL(n, WithSlash(URL(t.path, FALSE))).path,
                            owner |-> indexPath] : n \in names}
                    /\ UNCHANGED <<ctxUser, ctxMessage, modals, rejected>>
    /\ UNCHANGED <<files, calls, dispatchVars, loginVars, exited>>


\* builder.addSubcommand(data) / builder.addSubcommandGroup(data) followed by
\* the insertion into the name -> definition Map
Attached(owner, field, name, path) ==
    [owner EXCEPT !.options = Append(@, path),
                  ![field] = MapSet(@, name, path)]

\* a subcommand file of an index directory, from its import on
SubcommandSettles(t) ==
    /\ ~exited
    /\ t \in pending /\ t.op = "subcommand"
    /\ IF ~IsFile(t.path) THEN Rejects(t)
       ELSE LET loaded == Imported(t.path)
            IN  /\ modules' = [loaded EXCEPT ![t.owner] =
                       Attached(@, "subcommands", loaded[t.path].name, t.path)]
                /\ pending' = pending \ {t}
                /\ UNCHANGED <<commands, ctxUser, ctxMessage, modals, rejected>>
    /\ UNCHANGED <<files, calls, dispatchVars, loginVars, exited>>

\* a group directory of an index directory, from the import of its index on
GroupSettles(t) ==
    /\ ~exited
    /\ t \in pending /\ t.op = "group"
    /\ LET groupPath == Concat(URL(t.path, FALSE), "index.js").path
       IN  IF ~IsFile(groupPath) \/ ~IsDir(t.path) THEN Rejects(t)
           ELSE LET loaded == Imported(groupPath)
                    names == {n \in ReadDir(t.path) : n # "index.js" /\ isValidRegex(n)}
                IN  /\ modules' = [loaded EXCEPT ![t.owner] =
                           Attached(@, "subcommandGroups", loaded[groupPath].name, groupPath)]
                    /\ pending' = (pending \ {t}) \cup
                          {[call |-> t.call, op |-> "groupSubcommand",
                            path |-> Concat(URL(t.path, FALSE), n).path,
                            owner |-> groupPath] : n \in names}
                    /\ UNCHANGED <<commands, ctxUser, ctxMessage, modals, rejected>>
    /\ UNCHANGED <<files, calls, dispatchVars, loginVars, exited>>

\* a subcommand file of a group directory, from its import on
GroupSubcommandSettles(t) ==
    /\ ~exited
    /\ t \in pending /\ t.op = "groupSubcommand"
    /\ IF ~IsFile(t.path) THEN Rejects(t)
       ELSE LET loaded == Imported(t.path)
            IN  /\ modules' = [loaded EXCEPT ![t.owner] =
                       Attached(@, "subcommands", loaded[t.path].name, t.path)]
                /\ pending' = pending \ {t}
                /\ UNCHANGED <<commands, ctxUser, ctxMessage, modals, rejected>>
    /\ UNCHANGED <<files, calls, dispatchVars, loginVars, exited>>

\* the callback of loadContextMenusFrom, run when a file is loaded
ContextMenuSettles(t) ==
    /\ ~exited
    /\ t \in pending /\ t.op = "contextMenu"
    /\ LET loaded == Imported(t.path)
           context == loaded[t.path]
       IN  /\ modules' = loaded
           /\ ctxUser' = IF context.type = "User"
                         THEN MapSet(ctxUser, context.name, t.path) ELSE ctxUser
           /\ ctxMessage' = IF context.type = "Message"
                            THEN MapSet(ctxMessage, context.name, t.path) ELSE ctxMessage
    /\ pending' = pending \ {t}
    /\ UNCHANGED <<files, commands, modals, rejected, calls, dispatchVars, loginVars, exited>>

\* the callback of loadModalsFrom, run when a file is loaded
ModalSettles(t) ==
    /\ ~exited
    /\ t \in pending /\ t.op = "modal"
    /\ LET loaded == Imported(t.path)
           name == loaded[t.path].name       \* custom_id ?? title
       IN  /\ modules' = loaded
           /\ modals' = IF name = Null THEN modals ELSE MapSet(modals, name, t.path)
    /\ pending' = pending \ {t}
    /\ UNCHANGED <<files, commands, ctxUser, ctxMessage, rejected, calls, dispatchVars,
                   loginVars, exited>>

Settles ==
    \E t \in pending :
        \/ LoadCommandSettles(t)
        \/ LoadSubcommandSettles(t)
        \/ SubcommandSettles(t)
        \/ GroupSettles(t)
        \/ GroupSubcommandSettles(t)
        \/ ContextMenuSettles(t)
        \/ ModalSettles(t)


(***************************************************************************)
(* Sample directories                                                      *)
(***************************************************************************)
Bot == <<"bot">>

CommandsDir == Bot \o <<"commands">>

ModifyDir == CommandsDir \o <<"modify">>

GrpDir == ModifyDir \o <<"grp">>

ContextsDir == Bot \o <<"contexts">>

ModalsDir == Bot \o <<"modals">>

PingJs == CommandsDir \o <<"ping.js">>

AltJs == CommandsDir \o <<"alt.js">>

ModifyIndexJs == ModifyDir \o <<"index.js">>

AddJs == ModifyDir \o <<"add.js">>

GrpIndexJs == GrpDir \o <<"index.js">>

DelJs == GrpDir \o <<"del.js">>

ReportJs == ContextsDir \o <<"report.js">>

PinJs == ContextsDir \o <<"pin.js">>

FormJs == ModalsDir \o <<"form.js">>

\* a bot folder with commands (one subcommand directory with one group),
\* context menus and a modal; cfg chooses what the files export
RichFS(cfg) ==
    (Bot :> DirEntry) @@ (CommandsDir :> DirEntry) @@
    (PingJs :> FileEntry(CommandData("ping", cfg.pingPerms))) @@
    (CommandsDir \o <<"_hidden.js">> :> FileEntry(CommandData("hidden", NoPerm))) @@
    (CommandsDir \o <<"_draft">> :> DirEntry) @@
    (CommandsDir \o <<"_draft", "index.js">> :>
        FileEntry(SubcommandIndexData("draft", NoPerm, Null))) @@
    (ModifyDir :> DirEntry) @@
    (ModifyIndexJs :> FileEntry(SubcommandIndexData("modify", cfg.modifyPerms, cfg.modifyExecute))) @@
    (AddJs :> FileEntry(SubcommandData("add"))) @@
    (ModifyDir \o <<"_x.js">> :> FileEntry(SubcommandData("x"))) @@
    (ModifyDir \o <<"_draft">> :> DirEntry) @@
    (ModifyDir \o <<"_draft", "index.js">> :> FileEntry(SubcommandGroupData("draft"))) @@
    (ModifyDir \o <<"_draft", "add.js">> :> FileEntry(SubcommandData("add"))) @@
    (GrpDir \o <<"_x.js">> :> FileEntry(SubcommandData("y"))) @@
    (GrpDir :> DirEntry) @@
    (GrpIndexJs :> FileEntry(SubcommandGroupData("grp"))) @@
    (DelJs :> FileEntry(SubcommandData("del"))) @@
    (ContextsDir :> DirEntry) @@
    (ReportJs :> FileEntry(ContextMenuData("report", "User", cfg.reportPerms))) @@
    (PinJs :> FileEntry(ContextMenuData("pin", "Message", NoPerm))) @@
    (ModalsDir :> DirEntry) @@
    (FormJs :> FileEntry(ModalData("form")))

DefaultCfg ==
    [pingPerms |-> NoPerm, modifyPerms |-> NoPerm,
     modifyExecute |-> Null, reportPerms |-> NoPerm]

\* a commands folder with two files that export the same command name
DupFS ==
    (Bot :> DirEntry) @@ (CommandsDir :> DirEntry) @@
    (PingJs :> FileEntry(CommandData("ping", NoPerm))) @@
    (AltJs :> FileEntry(CommandData("ping", {"ManageGuild"})))

\* a commands folder whose only file has a namesake one level up
StrayFS ==
    (Bot :> DirEntry) @@ (CommandsDir :> DirEntry) @@
    (Bot \o <<"ping.js">> :> FileEntry(CommandData("stray", NoPerm))) @@
    (PingJs :> FileEntry(CommandData("ping", NoPerm)))

PlusJs == ModifyDir \o <<"plus.js">>

RmJs == GrpDir \o <<"rm.js">>

FlagJs == ContextsDir \o <<"flag.js">>

SheetJs == ModalsDir \o <<"sheet.js">>

\* a subcommand directory with two files that export one subcommand name
ClashSubFS ==
    (Bot :> DirEntry) @@ (CommandsDir :> DirEntry) @@
    (ModifyDir :> DirEntry) @@
    (ModifyIndexJs :> FileEntry(SubcommandIndexData("modify", NoPerm, Null))) @@
    (AddJs :> FileEntry(SubcommandData("add"))) @@
    (PlusJs :> FileEntry(SubcommandData("add")))

\* a group directory with two files that export one subcommand name
ClashGrpFS ==
    (Bot :> DirEntry) @@ (CommandsDir :> DirEntry) @@
    (ModifyDir :> DirEntry) @@
    (ModifyIndexJs :> FileEntry(SubcommandIndexData("modify", NoPerm, Null))) @@
    (GrpDir :> DirEntry) @@
    (GrpIndexJs :> FileEntry(SubcommandGroupData("grp"))) @@
    (DelJs :> FileEntry(SubcommandData("del"))) @@
    (RmJs :> FileEntry(SubcommandData("del")))

\* a context menu folder with two files that export one user context menu name
ClashCtxFS ==
    (Bot :> DirEntry) @@ (ContextsDir :> DirEntry) @@
    (ReportJs :> FileEntry(ContextMenuData("report", "User", NoPerm))) @@
    (FlagJs :> FileEntry(ContextMenuData("report", "User", {"ManageGuild"})))

\* a modal folder with two files that export one modal name
ClashModalFS ==
    (Bot :> DirEntry) @@ (ModalsDir :> DirEntry) @@
    (FormJs :> FileEntry(ModalData("form"))) @@
    (SheetJs :> FileEntry(ModalData("form")))

(***************************************************************************)
(* The state after construction                                            *)
(***************************************************************************)
NoInteraction ==
    [kind |-> Null, commandName |-> Null, group |-> Null, subcommand |-> Null,
     customId |-> <<>>, inGuild |-> FALSE, memberPerms |-> {}, beh |-> [ack |-> "none", fails |-> FALSE]]

\* what is remembered of a finished login
NoSummary ==
    [checked |-> FALSE, body |-> <<>>, loaded |-> {}, settled |-> FALSE,
     put |-> FALSE, ok |-> FALSE, lifetime |-> 0]

\* pc: where the login in progress is suspended; token, body, signature,
\* route: its local variables; arg: the argument of the call; held: the token
\* the platform client held at the call; count: the logins made so far (over
\* all lifetimes); the rest records what the last login did
IdleLogin ==
    [pc |-> "idle", token |-> Null, body |-> <<>>, signature |-> <<>>, route |-> Null,
     arg |-> Null, held |-> Null,
     count |-> 0, puts |-> <<>>, slept |-> FALSE, logged |-> <<>>, result |-> Null,
     checked |-> FALSE, loaded |-> {}, settled |-> FALSE,
     storeBefore |-> <<>>, prev |-> NoSummary]

DefaultEnv ==
    [DISCORD_TOKEN |-> "envToken", CLIENT_ID |-> "clientId", NODE_ENV |-> "production",
     TEST_GUILD_ID |-> Null, sessionToken |-> Null, userId |-> "userId"]

\* new Client(options): empty registries, nothing loading, no listener
Constructed ==
    /\ modules = <<>>
    /\ commands = <<>>
    /\ ctxUser = <<>>
    /\ ctxMessage = <<>>
    /\ modals = <<>>
    /\ pending = {}
    /\ rejected = {}
    /\ calls = {}
    /\ handlers = 0
    /\ cur = NoInteraction
    /\ runs = <<>>
    /\ subscriptions = <<>>
    /\ emissions = <<>>
    /\ stalled = <<>>
    /\ login = IdleLogin
    /\ exited = FALSE

(***************************************************************************)
(* SpecLoad: the directory loader alone                                    *)
(***************************************************************************)
OwnExecuteCfg == [DefaultCfg EXCEPT !.modifyExecute = "user"]

LoadFileSystems == {RichFS(DefaultCfg), RichFS(OwnExecuteCfg), DupFS, StrayFS}

InitLoad ==
    /\ files \in LoadFileSystems
    /\ Constructed
    /\ store = <<>>
    /\ env = DefaultEnv
    /\ lifetime = 1

LoadCalls ==
    \/ \E slash \in BOOLEAN : LoadCommandsFrom(URL(CommandsDir, slash))
    \/ LoadContextMenusFrom(URL(ContextsDir, TRUE))
    \/ LoadModalsFrom(URL(ModalsDir, TRUE))

NextLoad == LoadCalls \/ Settles

SpecLoad == InitLoad /\ [][NextLoad]_vars

(***************************************************************************)
(* SpecClash: the loader on folders where two files export one name        *)
(***************************************************************************)
ClashFileSystems == {DupFS, ClashSubFS, ClashGrpFS, ClashCtxFS, ClashModalFS}

InitClash ==
    /\ files \in ClashFileSystems
    /\ Constructed
    /\ store = <<>>
    /\ env = DefaultEnv
    /\ lifetime = 1

SpecClash == InitClash /\ [][NextLoad]_vars


(***************************************************************************)
(* Installing the default handler and emitting an interaction              *)
(***************************************************************************)
\* useDefaultInteractionHandler(): one more interactionCreate listener
UseDefaultInteractionHandler ==
    /\ ~exited
    /\ handlers < MaxHandlers
    /\ handlers' = handlers + 1
    /\ UNCHANGED <<files, registryVars, pending, rejected, calls, cur, runs, eventVars,
                   stalled, loginVars, exited>>

\* a dispatcher that takes the next interaction once the previous listener returned
EmitAfterPrevious(i, beh) ==
    /\ ~exited
    /\ cur = NoInteraction
    /\ stalled = <<>>
    /\ cur' = i @@ [beh |-> beh]
    /\ runs' = Listeners(handlers, FreshState, i, beh)
    /\ UNCHANGED <<files, registryVars, pending, rejected, calls, handlers, eventVars,
                   stalled, loginVars, exited>>

\* the platform emits interactionCreate: every installed listener runs
Emit(i, beh) ==
    /\ ~exited
    /\ cur = NoInteraction
    /\ cur' = i @@ [beh |-> beh]
    /\ runs' = Listeners(handlers, FreshState, i, beh)
    /\ UNCHANGED <<files, registryVars, pending, rejected, calls, handlers, eventVars,
                   stalled, loginVars, exited>>

\* emit has returned: the listeners that finished are gone, the ones
\* suspended on an executor stay suspended
EmissionDone ==
    /\ cur # NoInteraction
    /\ cur' = NoInteraction
    /\ runs' = <<>>
    /\ stalled' = IF \E k \in DOMAIN runs : runs[k].awaiting THEN Append(stalled, cur)
                  ELSE stalled
    /\ UNCHANGED <<files, registryVars, pending, rejected, calls, handlers, eventVars,
                   loginVars, exited>>

CommandNames == {"ping", "modify", "foo"}

GroupNames == {Null, "grp", "bad"}

SubcommandNames == {Null, "add", "del", "bad"}

ContextNames == {"report", "pin", "foo"}

\* where an interaction comes from: a guild member with permissions, or a
\* direct message (no member)
Origins ==
    {[inGuild |-> TRUE, memberPerms |-> mp] : mp \in SUBSET Flags} \cup
    {[inGuild |-> FALSE, memberPerms |-> {}]}

ChatInputs ==
    {[kind |-> "ChatInput", commandName |-> n, group |-> g, subcommand |-> sc,
      customId |-> <<>>, inGuild |-> o.inGuild, memberPerms |-> o.memberPerms] :
        n \in CommandNames, g \in GroupNames, sc \in SubcommandNames, o \in Origins}

\* options are varied in full for the subcommand index only
ChatInputSample ==
    {i \in ChatInputs :
        i.commandName = "modify" \/ <<i.group, i.subcommand>> \in {<<Null, Null>>, <<"grp", "del">>}}

ContextMenus ==
    {[kind |-> k, commandName |-> n, group |-> Null, subcommand |-> Null,
      customId |-> <<>>, inGuild |-> o.inGuild, memberPerms |-> o.memberPerms] :
        k \in {"UserContextMenu", "MessageContextMenu"}, n \in ContextNames, o \in Origins}

Interactions == ChatInputSample \cup ContextMenus

(***************************************************************************)
(* SpecDispatch: the default handler over a loaded bot folder              *)
(***************************************************************************)
Cfgs ==
    {c \in [pingPerms : {NoPerm, {"ManageGuild"}}, modifyPerms : {NoPerm, {"ManageGuild"}},
            modifyExecute : {Null, "user"}, reportPerms : {NoPerm, {"ManageGuild"}}] :
        c.reportPerms = c.pingPerms}

\* the module cache once loadCommandsFrom, loadContextMenusFrom and
\* loadModalsFrom have loaded RichFS(cfg) and every load has settled
LoadedModules(cfg) ==
    LET fs == RichFS(cfg)
    IN  (PingJs :> WithDefaultPermissions(fs[PingJs].def)) @@
        (ModifyIndexJs :>
            [WithSynthesizedExecutor(WithDefaultPermissions(fs[ModifyIndexJs].def))
                EXCEPT !.options = <<AddJs, GrpIndexJs>>,
                       !.subcommands = <<<<"add", AddJs>>>>,
                       !.subcommandGroups = <<<<"grp", GrpIndexJs>>>>]) @@
        (AddJs :> fs[AddJs].def) @@
        (GrpIndexJs :> [fs[GrpIndexJs].def EXCEPT !.options = <<DelJs>>,
                                                  !.subcommands = <<<<"del", DelJs>>>>]) @@
        (DelJs :> fs[DelJs].def) @@
        (ReportJs :> fs[ReportJs].def) @@
        (PinJs :> fs[PinJs].def) @@
        (FormJs :> fs[FormJs].def)

InitDispatch ==
    \E cfg \in Cfgs :
        /\ files = RichFS(cfg)
        /\ modules = LoadedModules(cfg)
        /\ commands = <<<<"ping", PingJs>>, <<"modify", ModifyIndexJs>>>>
        /\ ctxUser = <<<<"report", ReportJs>>>>
        /\ ctxMessage = <<<<"pin", PinJs>>>>
        /\ modals = <<<<"form", FormJs>>>>
        /\ pending = {}
        /\ rejected = {}
        /\ calls = {[fn |-> "loadCommandsFrom", url |-> URL(CommandsDir, TRUE), n |-> 0],
                     [fn |-> "loadContextMenusFrom", url |-> URL(ContextsDir, TRUE), n |-> 0],
                     [fn |-> "loadModalsFrom", url |-> URL(ModalsDir, TRUE), n |-> 0]}
        /\ handlers = 0
        /\ cur = NoInteraction
        /\ runs = <<>>
        /\ subscriptions = <<>>
        /\ emissions = <<>>
        /\ stalled = <<>>
        /\ login = IdleLogin
        /\ exited = FALSE
        /\ store = <<>>
        /\ env = DefaultEnv
        /\ lifetime = 1

NextDispatch ==
    \/ UseDefaultInteractionHandler
    \/ \E i \in Interactions, beh \in Behaviours : Emit(i, beh)
    \/ EmissionDone

SpecDispatch == InitDispatch /\ [][NextDispatch]_vars


(***************************************************************************)
(* SpecComponents: autocomplete and component interactions over a bot      *)
(* folder whose definitions carry autocomplete executors and handlers      *)
(***************************************************************************)
\* what a definition file exports besides its executor; auto: the files
\* that export an autocomplete executor
Equip(def, path, auto) ==
    LET d == [def EXCEPT !.autocomplete = IF path \in auto THEN "user" ELSE Null]
    IN  CASE path = PingJs -> [d EXCEPT !.buttons = {"btn1"}, !.modals = {"m1"}]
          [] path = AddJs -> [d EXCEPT !.buttons = {"btn1"}, !.selectMenus = {"sel1"}]
          [] path = DelJs -> [d EXCEPT !.buttons = {"btn1"}, !.modals = {"m1"}]
          [] OTHER -> def

AutocompleteFiles == {{}, {PingJs, AddJs}, {AddJs, DelJs}, {PingJs, AddJs, DelJs}}

\* a modal file that exports the name of a command
PingModalJs == ModalsDir \o <<"ping.js">>

EquippedFS(auto) ==
    [p \in DOMAIN RichFS(DefaultCfg) |->
        [RichFS(DefaultCfg)[p] EXCEPT !.def = Equip(@, p, auto)]]
    @@ (PingModalJs :> FileEntry(ModalData("ping")))

EquippedModules(auto) ==
    [p \in DOMAIN LoadedModules(DefaultCfg) |-> Equip(LoadedModules(DefaultCfg)[p], p, auto)]
    @@ (PingModalJs :> ModalData("ping"))

InitComponents ==
    \E auto \in AutocompleteFiles :
        /\ files = EquippedFS(auto)
        /\ modules = EquippedModules(auto)
        /\ commands = <<<<"ping", PingJs>>, <<"modify", ModifyIndexJs>>>>
        /\ ctxUser = <<<<"report", ReportJs>>>>
        /\ ctxMessage = <<<<"pin", PinJs>>>>
        /\ modals = <<<<"form", FormJs>>, <<"ping", PingModalJs>>>>
        /\ pending = {}
        /\ rejected = {}
        /\ calls = {[fn |-> "loadCommandsFrom", url |-> URL(CommandsDir, TRUE), n |-> 0],
                     [fn |-> "loadContextMenusFrom", url |-> URL(ContextsDir, TRUE), n |-> 0],
                     [fn |-> "loadModalsFrom", url |-> URL(ModalsDir, TRUE), n |-> 0]}
        /\ handlers = 0
        /\ cur = NoInteraction
        /\ runs = <<>>
        /\ subscriptions = <<>>
        /\ emissions = <<>>
        /\ stalled = <<>>
        /\ login = IdleLogin
        /\ exited = FALSE
        /\ store = <<>>
        /\ env = DefaultEnv
        /\ lifetime = 1

\* a group name comes with a subcommand name
Autocompletes ==
    {[kind |-> "Autocomplete", commandName |-> n, group |-> o[1], subcommand |-> o[2],
      customId |-> <<>>, inGuild |-> TRUE, memberPerms |-> {}] :
        n \in CommandNames,
        o \in {x \in GroupNames \X SubcommandNames : x[1] = Null \/ x[2] # Null}}

\* customId.split("-"): the segments that lead to a definition, a handler
\* id or none, and the segments after it
IdPrefixes ==
    {<<"ping">>, <<"modify", "add">>, <<"modify", "grp", "del">>, <<"modify", "grp", "bad">>,
     <<"modify", "bad">>, <<"modify">>, <<"foo">>, <<"form">>}

HandlerIds == {<<>>, <<"btn1">>, <<"sel1">>, <<"m1">>, <<"bad">>, <<"__proto__">>, <<"constructor">>}

TrailingArgs == {<<>>, <<"a">>, <<"a", "b">>}

CustomIds == {pre \o h \o t : pre \in IdPrefixes, h \in HandlerIds, t \in TrailingArgs}

ComponentKinds == {"SelectMenu", "ModalSubmit", "Button"}

Components ==
    {[kind |-> k, commandName |-> Null, group |-> Null, subcommand |-> Null,
      customId |-> c, inGuild |-> TRUE, memberPerms |-> {}] :
        k \in ComponentKinds, c \in CustomIds}

NextComponents ==
    \/ UseDefaultInteractionHandler
    \/ cur = NoInteraction /\ \E i \in Autocompletes \cup Components, beh \in Behaviours : Emit(i, beh)
    \/ EmissionDone

SpecComponents == InitComponents /\ [][NextComponents]_vars

(***************************************************************************)
(* Properties of the default handler (SpecDispatch)                        *)
(***************************************************************************)
\* the last interaction was emitted with exactly one listener installed
HandledOnce == cur.kind # Null /\ Len(runs) = 1

Sent(content, subject, op) ==
    [op |-> op, content |-> content, subject |-> subject, ephemeral |-> TRUE]

\* the executors written by the user that the listener invoked
UserInvoked(r) == SelectSeq(r.invoked, LAMBDA e : ~e.synth)

\* C1: a chat-input interaction whose command name is not in the command
\* registry gets exactly one ephemeral "could not find command" reply and
\* no executor is invoked for it.
C1_UnknownCommandNotFound ==
    (HandledOnce /\ cur.kind = "ChatInput" /\ cur.commandName \notin MapKeys(commands))
        => /\ runs[1].sent = <<Sent("CommandNotFound", cur.commandName, "reply")>>
           /\ runs[1].invoked = <<>>

C1_Witness ==
    /\ HandledOnce /\ cur.kind = "ChatInput" /\ cur.commandName = "foo"
    /\ Len(runs[1].sent) = 1

\* C2: for a chat-input interaction on a registered command with a permission
\* requirement: in a guild, a member lacking the permission gets an ephemeral
\* no-permission reply and the executor is not invoked; outside a guild the
\* executor is invoked whatever the permissions; in a guild the executor is
\* invoked only for a member that has the permission.
C2_PermissionBypassOnlyOutsideGuild ==
    (HandledOnce /\ cur.kind = "ChatInput" /\ cur.commandName \in MapKeys(commands))
        => LET path == MapGet(commands, cur.commandName)
               required == modules[path].permissions
               lacks == ~("Administrator" \in cur.memberPerms
                          \/ required \subseteq cur.memberPerms)
           IN  required # NoPerm =>
                 /\ (cur.inGuild /\ lacks) =>
                        /\ runs[1].sent = <<Sent("NoPermissionCommand", Null, "reply")>>
                        /\ runs[1].invoked = <<>>
                 /\ ~cur.inGuild =>
                        /\ runs[1].invoked # <<>>
                        /\ runs[1].invoked[1].module = path
                 /\ (cur.inGuild /\ runs[1].invoked # <<>>) => ~lacks

C2_Witness ==
    /\ HandledOnce /\ cur.kind = "ChatInput" /\ cur.commandName = "ping"
    /\ modules[PingJs].permissions = {"ManageGuild"}
    /\ ~cur.inGuild
    /\ runs[1].invoked # <<>>

Designated(index, groupName, name) ==
    IF groupName = Null
    THEN {index.subcommands[k][2] :
            k \in {j \in DOMAIN index.subcommands : index.subcommands[j][1] = name}}
    ELSE UNION {
            {modules[index.subcommandGroups[g][2]].subcommands[k][2] :
                k \in {j \in DOMAIN modules[index.subcommandGroups[g][2]].subcommands :
                         modules[index.subcommandGroups[g][2]].subcommands[j][1] = name}} :
            g \in {j \in DOMAIN index.subcommandGroups :
                     index.subcommandGroups[j][1] = groupName}}

\* C10: the synthesized executor looks a subcommand up only within the named
\* group when a group name is present, otherwise only among the index's direct
\* subcommands; when nothing is found one ephemeral "could not find
\* subcommand" message is sent and no subcommand executor is invoked; when
\* found, exactly that subcommand's executor is invoked.
C10_SubcommandResolution ==
    (/\ HandledOnce /\ cur.kind = "ChatInput" /\ cur.subcommand # Null
     /\ runs[1].invoked # <<>> /\ runs[1].invoked[1].synth)
        => LET index == modules[runs[1].invoked[1].module]
               found == Designated(index, cur.group, cur.subcommand)
           IN  IF found = {}
               THEN /\ runs[1].sent = <<Sent("SubcommandNotFound", cur.subcommand, "reply")>>
                    /\ UserInvoked(runs[1]) = <<>>
               ELSE /\ Len(UserInvoked(runs[1])) = 1
                    /\ UserInvoked(runs[1])[1].module \in found
                    /\ Cardinality(found) = 1
                    /\ \A k \in DOMAIN runs[1].sent :
                          runs[1].sent[k].content # "SubcommandNotFound"

\* a subcommand that exists only among the direct subcommands is not found
\* when looked up within a group
C10_Witness ==
    /\ HandledOnce /\ cur.kind = "ChatInput" /\ cur.commandName = "modify"
    /\ cur.group = "grp" /\ cur.subcommand = "add"
    /\ runs[1].invoked # <<>> /\ runs[1].invoked[1].synth
    /\ runs[1].sent = <<Sent("SubcommandNotFound", "add", "reply")>>

\* C16: context-menu interactions follow the permission rule of chat-input
\* commands: when the resolved context menu requires a permission, a guild
\* member lacking it gets the ephemeral no-permission reply and the executor
\* is not invoked, and outside a guild the check is skipped and the executor
\* is invoked.
C16_ContextMenuPermissionRule ==
    (/\ HandledOnce /\ cur.kind \in {"UserContextMenu", "MessageContextMenu"}
     /\ cur.commandName \in
            MapKeys(IF cur.kind = "UserContextMenu" THEN ctxUser ELSE ctxMessage))
        => LET path == MapGet(IF cur.kind = "UserContextMenu" THEN ctxUser ELSE ctxMessage,
                              cur.commandName)
               required == modules[path].permissions
               lacks == ~("Administrator" \in cur.memberPerms
                          \/ required \subseteq cur.memberPerms)
           IN  required # NoPerm =>
                 /\ (cur.inGuild /\ lacks) =>
                        /\ runs[1].sent = <<Sent("NoPermissionContext", Null, "reply")>>
                        /\ runs[1].invoked = <<>>
                 /\ ~cur.inGuild =>
                        /\ runs[1].invoked # <<>>
                        /\ runs[1].invoked[1].module = path
                        /\ ~runs[1].thrown

\* the messages the dispatcher sends through the exported reply helper
HelperContents == {"SubcommandNotFound", "CommandError", "ContextError"}

\* C17: a message sent through the reply helper goes out with the reply
\* operation when the interaction was neither deferred nor replied to, and
\* with the follow-up operation when it was already deferred or replied to.
C17_HelperRepliesOrFollowsUp ==
    HandledOnce =>
        \A k \in DOMAIN runs[1].sent :
            runs[1].sent[k].content \in HelperContents =>
                runs[1].sent[k].op =
                    (IF cur.beh.ack # "none" /\ UserInvoked(runs[1]) # <<>>
                     THEN "followUp" ELSE "reply")


(***************************************************************************)
(* Properties of autocomplete and component dispatch (SpecComponents)      *)
(***************************************************************************)
\* the definitions that own the path of the autocomplete interaction and
\* have an autocomplete executor attached: the command itself when no
\* subcommand is named, else the subcommand the options designate
AutocompleteOwners ==
    IF cur.commandName \notin MapKeys(commands) THEN {}
    ELSE LET path == MapGet(commands, cur.commandName)
             owners == IF cur.subcommand = Null THEN {path}
                       ELSE Designated(modules[path], cur.group, cur.subcommand)
         IN  {p \in owners : modules[p].autocomplete # Null}

\* C11: an autocomplete interaction whose path resolves to no attached
\* autocomplete executor, the case of a command name that is not registered
\* included, is answered with the sentinel option entry: the dispatcher
\* leaves no autocomplete interaction unanswered.
C11_UnresolvedAutocompleteGetsSentinel ==
    (HandledOnce /\ cur.kind = "Autocomplete" /\ AutocompleteOwners = {})
        => /\ runs[1].responded = <<Sentinel>>
           /\ runs[1].handled = <<>>

\* C12: the autocomplete executor attached to the owning definition is
\* invoked at every nesting depth: for a top-level command, for a direct
\* subcommand and for a subcommand of a group.
C12_AutocompleteAtEveryDepth ==
    (HandledOnce /\ cur.kind = "Autocomplete" /\ AutocompleteOwners # {})
        => /\ Len(runs[1].handled) = 1
           /\ runs[1].handled[1].fn = "autocomplete"
           /\ runs[1].handled[1].module \in AutocompleteOwners

\* the listener sent a message with this content
HasSent(r, content) == \E k \in DOMAIN r.sent : r.sent[k].content = content

\* the permission test of the chat-input branch refuses the member
Denied ==
    LET path == MapGet(commands, cur.commandName)
    IN  /\ path # Nil
        /\ cur.inGuild
        /\ modules[path].permissions # NoPerm
        /\ ~Has(cur.memberPerms, modules[path].permissions)

\* C26: with the default handler installed once, a chat-input interaction
\* has exactly one of three mutually exclusive outcomes, decided in this
\* order: the not-found reply, the no-permission reply, the invocation of
\* the command's executor; at most one user-defined executor is invoked and
\* none after a not-found or no-permission reply.
C26_ExactlyOneChatInputOutcome ==
    (HandledOnce /\ cur.kind = "ChatInput")
        => LET r == runs[1]
               notFound == HasSent(r, "CommandNotFound")
               noPermission == HasSent(r, "NoPermissionCommand")
               executed == r.invoked # <<>>
           IN  /\ notFound <=> ~MapHas(commands, cur.commandName)
               /\ noPermission <=> Denied
               /\ executed <=> (MapHas(commands, cur.commandName) /\ ~Denied)
               /\ Cardinality({o \in {<<1, notFound>>, <<2, noPermission>>, <<3, executed>>} :
                                  o[2]}) = 1
               /\ Len(UserInvoked(r)) <= 1
               /\ (notFound \/ noPermission) => Len(r.sent) = 1 /\ r.logged = <<>>
               /\ ~r.thrown

C26_Witness ==
    /\ HandledOnce /\ cur.kind = "ChatInput" /\ cur.commandName = "modify"
    /\ cur.inGuild /\ modules[ModifyIndexJs].permissions # NoPerm
    /\ Len(runs[1].invoked) = 2 /\ Len(UserInvoked(runs[1])) = 1
    /\ UserInvoked(runs[1])[1].module = DelJs
    /\ ~HasSent(runs[1], "NoPermissionCommand")

\* the handler invocations the custom id designates when its segments are
\* read one per nesting level: command, [group,] [subcommand,] handler id,
\* then the trailing arguments
Expect(owner, level) ==
    LET c == cur.customId
        keys == modules[owner][LookupOf(cur.kind)]
    IN  IF Len(c) > level /\ keys # NoHandlers /\ c[level + 1] \in keys
        THEN {[module |-> owner, fn |-> LookupOf(cur.kind), key |-> c[level + 1],
               args |-> SubSeq(c, level + 2, Len(c))]}
        ELSE {}

RoutedTo ==
    LET c == cur.customId
        path == MapGet(commands, c[1])
    IN  IF path = Nil THEN {}
        ELSE IF modules[path].interface = "CommandData" THEN Expect(path, 1)
        ELSE IF Len(c) < 2 THEN {}
        ELSE IF c[2] \in MapKeys(modules[path].subcommandGroups)
        THEN IF Len(c) < 3 THEN {}
             ELSE UNION {Expect(p, 3) : p \in Designated(modules[path], c[2], c[3])}
        ELSE UNION {Expect(p, 2) : p \in Designated(modules[path], Null, c[2])}

\* C13: custom-id routing consumes one segment per nesting level, left to
\* right, and the selected handler receives exactly the segments after the
\* handler id, in order: none for a three-segment id of a subcommand
\* handler, the fourth segment alone for a four-segment one.
C13_OneSegmentPerLevel ==
    (HandledOnce /\ cur.kind \in ComponentKinds /\ RoutedTo # {})
        => /\ Len(runs[1].handled) = 1
           /\ runs[1].handled[1] \in RoutedTo
           /\ Cardinality(RoutedTo) = 1

C13_Witness ==
    /\ HandledOnce /\ cur.kind = "Button"
    /\ cur.customId = <<"modify", "add", "btn1", "a">>
    /\ runs[1].handled = <<[module |-> AddJs, fn |-> "buttons", key |-> "btn1",
                            args |-> <<"a">>]>>

\* the modal submission falls back to the flat modal registry
FlatModal ==
    /\ cur.kind = "ModalSubmit"
    /\ cur.customId[1] \notin MapKeys(commands)
    /\ cur.customId[1] \in MapKeys(modals)

\* C14: a modal submission whose first segment matches no command but an
\* entry of the flat modal registry invokes that modal's executor with all
\* the segments after the first as arguments, in order.
C14_FlatModalGetsAllTrailingSegments ==
    (HandledOnce /\ FlatModal)
        => runs[1].handled =
              <<[module |-> MapGet(modals, cur.customId[1]), fn |-> "execute",
                 key |-> Null, args |-> Tail(cur.customId)]>>

\* C15: a component interaction in which a resolution step fails (unknown
\* command and no flat modal, unknown group, subcommand or handler id) is a
\* silent no-op: no executor is invoked, nothing is sent, nothing is logged
\* and nothing is raised.
C15_UnresolvedComponentIsSilent ==
    (HandledOnce /\ cur.kind \in ComponentKinds /\ RoutedTo = {} /\ ~FlatModal)
        => /\ runs[1].handled = <<>>
           /\ runs[1].invoked = <<>>
           /\ runs[1].sent = <<>>
           /\ runs[1].logged = <<>>
           /\ ~runs[1].thrown

\* C24: a modal submission is handled by the flat-registry modal keyed by
\* its first custom-id segment whenever no command-scoped modal handler can
\* be resolved for its custom id, including when the first segment names a
\* registered command that has no matching command-scoped modal handler.
C24_FlatModalWheneverNoScopedHandler ==
    (/\ HandledOnce /\ cur.kind = "ModalSubmit"
     /\ RoutedTo = {}
     /\ cur.customId[1] \in MapKeys(modals))
        => /\ Len(runs[1].handled) = 1
           /\ runs[1].handled[1].module = MapGet(modals, cur.customId[1])
           /\ runs[1].handled[1].fn = "execute"

\* C27: component routing selects the sub-executor table by interaction kind
\* only: a select-menu interaction invokes only entries of a selectMenus
\* table, a button interaction only entries of a buttons table, a modal
\* submission only entries of a modals table or of the flat modal registry;
\* a button or select-menu interaction never invokes a flat-registry modal,
\* even when its first segment matches one.
C27_TableSelectedByKindOnly ==
    (HandledOnce /\ cur.kind \in ComponentKinds)
        => \A k \in DOMAIN runs[1].handled :
              LET h == runs[1].handled[k]
                  scoped(table) == /\ h.fn = table
                                   /\ modules[h.module][table] # NoHandlers
                                   /\ h.key \in modules[h.module][table]
              IN  CASE cur.kind = "SelectMenu" -> scoped("selectMenus")
                    [] cur.kind = "Button" -> scoped("buttons")
                    [] OTHER ->
                          \/ scoped("modals")
                          \/ /\ h.fn = "execute"
                             /\ MapHas(modals, cur.customId[1])
                             /\ h.module = MapGet(modals, cur.customId[1])

C27_Witness ==
    /\ HandledOnce /\ cur.kind = "Button"
    /\ cur.customId = <<"ping", "btn1">>
    /\ MapHas(modals, "ping") /\ "btn1" \notin modules[PingJs].modals
    /\ runs[1].handled = <<[module |-> PingJs, fn |-> "buttons", key |-> "btn1",
                            args |-> <<>>]>>

\* C25: when an autocomplete executor or a component sub-executor (button,
\* select menu, command-scoped or flat modal) fails, the failure is caught
\* and logged only: the dispatcher sends no reply or response to the user
\* for it and the failure does not propagate out of the listener.
C25_SubExecutorFailureLoggedOnly ==
    (/\ HandledOnce /\ cur.kind \in {"Autocomplete"} \cup ComponentKinds
     /\ runs[1].handled # <<>> /\ cur.beh.fails)
        => /\ ~runs[1].thrown
           /\ Len(runs[1].logged) = 1
           /\ Len(runs[1].handled) = 1
           /\ runs[1].invoked = <<>>
           /\ runs[1].sent = (IF cur.kind # "Autocomplete" /\ cur.beh.ack = "reply"
                              THEN <<UserMessage>> ELSE <<>>)
           /\ runs[1].responded = (IF cur.kind = "Autocomplete" /\ cur.beh.ack # "none"
                                   THEN <<UserChoices>> ELSE <<>>)

C25_Witness ==
    /\ HandledOnce /\ cur.kind = "SelectMenu" /\ cur.beh = [ack |-> "none", fails |-> TRUE]
    /\ cur.customId = <<"modify", "add", "sel1", "a">>
    /\ runs[1].handled = <<[module |-> AddJs, fn |-> "selectMenus", key |-> "sel1",
                            args |-> <<"a">>]>>
    /\ runs[1].logged = <<"component">> /\ runs[1].sent = <<>> /\ ~runs[1].thrown

(***************************************************************************)
(* login: the canonical signature and the differential registration        *)
(***************************************************************************)
\* a permission bitfield as JSON writes it
PermToken(perms) ==
    CASE perms = {} -> "0"
      [] perms = {"Administrator"} -> "8"
      [] perms = {"ManageGuild"} -> "32"
      [] OTHER -> "40"

\* data.toJSON() of the builder of a loaded definition
RECURSIVE ToJSON(_)
ToJSON(path) ==
    LET d == modules[path]
    IN  [name |-> d.name, description |-> d.description, type |-> d.type,
         default_member_permissions |-> d.defaultMemberPermissions,
         options |-> [k \in DOMAIN d.options |-> ToJSON(d.options[k])]]

\* .replace(/\s/g, ""): the characters of a string that are not whitespace
Strip(chars) == SelectSeq(chars, LAMBDA c : c # " ")

RECURSIVE JoinAll(_)
JoinAll(parts) ==
    IF parts = <<>> THEN <<>>
    ELSE IF Len(parts) = 1 THEN parts[1]
    ELSE parts[1] \o <<",">> \o JoinAll(Tail(parts))

\* JSON.stringify(value, null, 4) with the quotes around keys removed and all
\* whitespace removed, as a sequence of tokens; undefined members are left out
RECURSIVE Stringify(_)
Stringify(json) ==
    <<"{", "name:", json.name>>
    \o (IF json.type # Null THEN <<",", "type:", json.type>> ELSE <<>>)
    \o (IF json.description # <<>>
        THEN <<",", "description:">> \o Strip(json.description) ELSE <<>>)
    \o (IF json.default_member_permissions # NoPerm
        THEN <<",", "default_member_permissions:", PermToken(json.default_member_permissions)>>
        ELSE <<>>)
    \o (IF json.type = Null
        THEN <<",", "options:", "[">>
             \o JoinAll([k \in DOMAIN json.options |-> Stringify(json.options[k])])
             \o <<"]">>
        ELSE <<>>)
    \o <<"}">>

\* the canonical signature of a list of JSON values; the empty string is <<>>
Signature(all) ==
    <<"[">> \o JoinAll([k \in DOMAIN all |-> Stringify(all[k])]) \o <<"]">>

\* the body with the context menus first
BodyContextsFirst ==
    [k \in DOMAIN ctxUser |-> ToJSON(ctxUser[k][2])]
    \o [k \in DOMAIN ctxMessage |-> ToJSON(ctxMessage[k][2])]
    \o [k \in DOMAIN commands |-> ToJSON(commands[k][2])]

\* all = [...commands, ...userContexts, ...messageContexts]
Body ==
    [k \in DOMAIN commands |-> ToJSON(commands[k][2])]
    \o [k \in DOMAIN ctxUser |-> ToJSON(ctxUser[k][2])]
    \o [k \in DOMAIN ctxMessage |-> ToJSON(ctxMessage[k][2])]


SummaryOf(l) ==
    [checked |-> l.checked, body |-> l.body, loaded |-> l.loaded,
     settled |-> l.settled, put |-> l.puts # <<>>,
     ok |-> l.puts # <<>> /\ l.puts[1].ok, lifetime |-> lifetime]

\* the token the platform client holds: set by the user, else taken from the
\* environment by its constructor
SessionToken == IF env.sessionToken # Null THEN env.sessionToken ELSE env.DISCORD_TOKEN

\* process.env.CLIENT_ID ?? this.user?.id
ClientId == IF env.CLIENT_ID # Null THEN env.CLIENT_ID ELSE env.userId

IsTestEnv == env.NODE_ENV = "development"

\* the route chosen whatever the mode
RouteAlwaysGlobal == "applicationCommands"

\* Routes.applicationGuildCommands in development mode with a guild id, else
\* Routes.applicationCommands
Route ==
    IF IsTestEnv /\ env.TEST_GUILD_ID # Null
    THEN "applicationGuildCommands" ELSE "applicationCommands"

\* the delay performed in every development configuration
NeedsDelayInAnyDevelopment == IsTestEnv

\* if (isTestEnv && !guildId) { warn; await thread.sleepAsync(5000); }
NeedsDelay == IsTestEnv /\ env.TEST_GUILD_ID = Null

\* the comparison that never finds the interactions up to date
UpToDateNever(signature) == FALSE

\* the comparison that takes the signature of the empty list for empty
UpToDateUnlessEmptyList(signature) == store = signature /\ signature # <<"[", "]">>

\* this.store.get("%registered_applications%", "") === parsedString && parsedString !== ""
UpToDate(signature) == store = signature /\ signature # <<>>

\* login from the serialization of the definitions to the start of the
\* registration call
RegisterCheck(l) ==
    LET signature == Signature(Body)
        seen == [l EXCEPT !.checked = TRUE,
                          !.settled = l.settled /\ pending = {},
                          !.loaded = DOMAIN modules,
                          !.storeBefore = store,
                          !.signature = signature,
                          !.body = Body]
    IN  IF UpToDate(signature)
        THEN login' = [seen EXCEPT !.pc = "idle", !.result = l.token]
        ELSE login' = [seen EXCEPT !.pc = "put", !.route = Route]

\* login(token) up to the call of the platform's login
LoginCall(tokenArg) ==
    /\ ~exited
    /\ login.pc = "idle"
    /\ login.count < MaxLogins
    /\ login' = [IdleLogin EXCEPT
                    !.pc = "sdk",
                    !.token = IF tokenArg # Null THEN tokenArg ELSE env.DISCORD_TOKEN,
                    !.arg = tokenArg,
                    !.held = env.sessionToken,
                    !.storeBefore = store,
                    !.count = login.count + 1,
                    !.settled = (pending = {}),
                    !.prev = IF login.result = Null THEN login.prev ELSE SummaryOf(login)]
    /\ UNCHANGED <<files, registryVars, pending, rejected, calls, dispatchVars,
                   store, env, lifetime, exited>>

\* the platform's login settles and login runs on to its next suspension
SdkLoginSettles ==
    /\ ~exited
    /\ login.pc = "sdk"
    /\ IF login.token = Null /\ SessionToken = Null
       THEN \* the platform's login rejects: login rejects with it
            /\ login' = [login EXCEPT !.pc = "idle", !.result = "rejected"]
            /\ UNCHANGED <<env, exited>>
       ELSE /\ env' = [env EXCEPT !.sessionToken =
                          IF login.token # Null THEN login.token ELSE SessionToken]
            /\ IF login.token = Null \/ ClientId = Null
               THEN /\ login' = [login EXCEPT !.pc = "idle", !.result = "exit",
                                              !.logged = Append(@, "No token or client ID")]
                    /\ exited' = TRUE
               ELSE IF NeedsDelay
               THEN /\ login' = [login EXCEPT !.pc = "sleep", !.slept = TRUE,
                                              !.logged = Append(@, "No guild ID")]
                    /\ UNCHANGED exited
               ELSE /\ RegisterCheck(login)
                    /\ UNCHANGED exited
    /\ UNCHANGED <<files, registryVars, pending, rejected, calls, dispatchVars,
                   store, lifetime>>

\* thread.sleepAsync(5000) is over
SleepSettles ==
    /\ ~exited
    /\ login.pc = "sleep"
    /\ RegisterCheck(login)
    /\ UNCHANGED <<files, registryVars, pending, rejected, calls, dispatchVars,
                   store, env, lifetime, exited>>

\* the outcome of a failed registration call, with the signature persisted all the same
PutFailedPersisting(l) ==
    /\ login' = [l EXCEPT !.pc = "idle", !.result = "exit", !.logged = Append(@, "put failed")]
    /\ store' = l.signature
    /\ exited' = TRUE

\* catch (error) { this.logger.error(error); process.exit(1); }
PutFailed(l) ==
    /\ login' = [l EXCEPT !.pc = "idle", !.result = "exit", !.logged = Append(@, "put failed")]
    /\ store' = store
    /\ exited' = TRUE

\* the signature of the definitions as they are when the call settles
PersistedOfCurrentDefinitions(l) == Signature(Body)

\* this.store.set("%registered_applications%", parsedString)
Persisted(l) == l.signature

\* rest.put(route, { body: all }) settles
PutSettles(ok) ==
    /\ ~exited
    /\ login.pc = "put"
    /\ LET l == [login EXCEPT !.puts = Append(@, [route |-> login.route,
                                                  body |-> login.body, ok |-> ok])]
       IN  IF ok
           THEN /\ store' = Persisted(l)
                /\ login' = [l EXCEPT !.pc = "idle", !.result = l.token]
                /\ UNCHANGED exited
           ELSE PutFailed(l)
    /\ UNCHANGED <<files, registryVars, pending, rejected, calls, dispatchVars,
                   env, lifetime>>

\* the process ends and a new one is started on the same folder and store
Restart ==
    /\ lifetime < MaxLifetimes
    /\ login.pc = "idle"
    /\ login.count < MaxLogins
    /\ pending = {}
    /\ lifetime' = lifetime + 1
    /\ modules' = <<>>
    /\ commands' = <<>>
    /\ ctxUser' = <<>>
    /\ ctxMessage' = <<>>
    /\ modals' = <<>>
    /\ pending' = {}
    /\ rejected' = {}
    /\ calls' = {}
    /\ handlers' = 0
    /\ cur' = NoInteraction
    /\ runs' = <<>>
    /\ subscriptions' = <<>>
    /\ emissions' = <<>>
    /\ stalled' = <<>>
    /\ login' = [IdleLogin EXCEPT
                    !.count = login.count,
                    !.prev = IF login.result = Null THEN login.prev ELSE SummaryOf(login)]
    /\ exited' = FALSE
    /\ env' = [env EXCEPT !.sessionToken = Null]
    /\ UNCHANGED <<files, store>>

(***************************************************************************)
(* SpecLogin: loading and logging in, over process lifetimes               *)
(***************************************************************************)
\* a bot folder with a command, a subcommand directory and two context menus
LoginFS ==
    (Bot :> DirEntry) @@ (CommandsDir :> DirEntry) @@
    (PingJs :> FileEntry([CommandData("ping", {"ManageGuild"}) EXCEPT
                             !.description = <<"p", " ", "g">>])) @@
    (ModifyDir :> DirEntry) @@
    (ModifyIndexJs :> FileEntry(SubcommandIndexData("modify", NoPerm, Null))) @@
    (AddJs :> FileEntry(SubcommandData("add"))) @@
    (ContextsDir :> DirEntry) @@
    (ReportJs :> FileEntry(ContextMenuData("report", "User", NoPerm))) @@
    (PinJs :> FileEntry(ContextMenuData("pin", "Message", NoPerm)))

LoginEnvs ==
    {DefaultEnv,
     [DefaultEnv EXCEPT !.NODE_ENV = "development", !.TEST_GUILD_ID = "guildId"],
     [DefaultEnv EXCEPT !.NODE_ENV = "development"],
     [DefaultEnv EXCEPT !.DISCORD_TOKEN = Null],
     [DefaultEnv EXCEPT !.CLIENT_ID = Null, !.userId = Null],
     [DefaultEnv EXCEPT !.TEST_GUILD_ID = "guildId"],
     [DefaultEnv EXCEPT !.sessionToken = "heldToken"],
     [DefaultEnv EXCEPT !.DISCORD_TOKEN = Null, !.sessionToken = "heldToken"]}

InitLogin ==
    /\ files = LoginFS
    /\ Constructed
    /\ store = <<>>
    /\ env \in LoginEnvs
    /\ lifetime = 1

\* the load function has not been called in this lifetime
NotCalled(fn) == \A c \in calls : c.fn # fn

\* every folder is loaded at most once in a lifetime
NextLogin ==
    \/ NotCalled("loadCommandsFrom") /\ LoadCommandsFrom(URL(CommandsDir, TRUE))
    \/ NotCalled("loadContextMenusFrom") /\ LoadContextMenusFrom(URL(ContextsDir, TRUE))
    \/ \E t \in pending :
          \/ LoadCommandSettles(t)
          \/ LoadSubcommandSettles(t)
          \/ SubcommandSettles(t)
          \/ ContextMenuSettles(t)
    \/ \E tokenArg \in {Null, "argToken"} : LoginCall(tokenArg)
    \/ SdkLoginSettles
    \/ SleepSettles
    \/ \E ok \in BOOLEAN : PutSettles(ok)

SpecLogin == InitLogin /\ [][NextLogin]_vars

(***************************************************************************)
(* SpecRelogin: the same over several process lifetimes sharing the store  *)
(***************************************************************************)
NextRelogin == NextLogin \/ Restart

SpecRelogin == InitLogin /\ [][NextRelogin]_vars


(***************************************************************************)
(* Properties of login (SpecLogin)                                         *)
(***************************************************************************)
MapKeySeq(m) == [k \in DOMAIN m |-> m[k][1]]

\* the last login reached the comparison with the persisted signature
Compared == login.checked

\* C4: when the canonical signature of the current definitions equals the
\* persisted signature, login makes no remote registration call and resolves
\* with the token.
C4_UpToDateSkipsRegistration ==
    (Compared /\ login.signature = login.storeBefore)
        => /\ login.puts = <<>>
           /\ login.pc = "idle"
           /\ login.result = login.token
           /\ login.token # Null
           /\ store = login.storeBefore

C4_Witness ==
    /\ Compared /\ login.signature = login.storeBefore
    /\ login.body # <<>>
    /\ login.result = login.token

\* the step of login that serializes the definitions and compares
ComparesNow == login.pc \in {"sdk", "sleep"} /\ login'.checked

\* C5: when the canonical signature differs from the persisted one, the
\* remote transport is invoked exactly once, with the commands, then the user
\* context menus, then the message context menus, and once the call has
\* succeeded the signature of that body is persisted.
C5_ChangedRegistersOnce ==
    /\ [][ComparesNow =>
            /\ [k \in DOMAIN login'.body |-> login'.body[k].name] =
                  MapKeySeq(commands) \o MapKeySeq(ctxUser) \o MapKeySeq(ctxMessage)
            /\ [k \in DOMAIN login'.body |-> login'.body[k].type] =
                  [k \in DOMAIN commands |-> Null] \o [k \in DOMAIN ctxUser |-> "User"]
                  \o [k \in DOMAIN ctxMessage |-> "Message"]
            /\ login'.signature = Signature(login'.body)]_vars
    /\ []((Compared /\ login.signature # login.storeBefore)
            => /\ login.pc = "put" \/ Len(login.puts) = 1
               /\ login.puts # <<>> =>
                    /\ Len(login.puts) = 1
                    /\ login.puts[1].body = login.body
                    /\ login.puts[1].ok => store = login.signature)

C5_Witness ==
    /\ Compared /\ login.prev.put /\ login.prev.ok
    /\ Len(login.body) > Len(login.prev.body)
    /\ Len(login.puts) = 1 /\ login.puts[1].ok
    /\ store = login.signature
    /\ store # login.storeBefore
    /\ ctxUser # <<>> /\ ctxMessage # <<>> /\ Len(commands) = 2

\* C6: when the remote registration call fails, the failure is logged, the
\* process is terminated, no second call is made, the persisted signature is
\* left as it was and login does not resolve with the token.
C6_RegistrationFailureIsFatal ==
    (login.puts # <<>> /\ ~login.puts[1].ok)
        => /\ exited
           /\ Len(login.puts) = 1
           /\ login.logged # <<>> /\ login.logged[Len(login.logged)] = "put failed"
           /\ store = login.storeBefore
           /\ login.result = "exit"
           /\ login.result # login.token
           /\ login.pc = "idle"

C6_Witness ==
    /\ login.puts # <<>> /\ ~login.puts[1].ok
    /\ login.prev.put /\ login.prev.ok
    /\ store # <<>> /\ store = login.storeBefore

\* C7: of two consecutive logins with the same definitions, the first having
\* registered successfully, the second makes no remote registration call;
\* this holds for the empty definition set too.
C7_SecondLoginSkips ==
    (/\ Compared /\ login.prev.checked /\ login.prev.put /\ login.prev.ok
     /\ login.body = login.prev.body)
        => login.puts = <<>> /\ login.pc = "idle" /\ login.result = login.token

C7_Witness ==
    /\ Compared /\ login.prev.checked /\ login.prev.put /\ login.prev.ok
    /\ login.body = <<>> /\ login.prev.body = <<>>
    /\ login.puts = <<>> /\ login.result = login.token

\* the last login call has come to its end
Finished == login.pc = "idle" /\ login.result # Null

\* C18: when no token or no client id can be resolved, login logs the
\* failure and terminates the process, makes no remote registration call and
\* persists nothing.
C18_MissingConfigurationIsFatal ==
    (/\ Finished
     /\ \/ login.arg = Null /\ login.held = Null /\ env.DISCORD_TOKEN = Null
        \/ ClientId = Null)
        => /\ login.logged = <<"No token or client ID">>
           /\ exited
           /\ login.puts = <<>>
           /\ store = login.storeBefore

\* the token the stated priority order designates for the last login call
PriorityToken ==
    IF login.arg # Null THEN login.arg
    ELSE IF login.held # Null THEN login.held
    ELSE env.DISCORD_TOKEN

\* C19: login uses the explicit argument if given, else the token held by
\* the session if present, else the token of the environment; it fails only
\* when none of the three is present and otherwise resolves with the token
\* it used (a client id being resolvable and no registration call failing).
C19_TokenPriority ==
    (/\ Finished /\ ClientId # Null
     /\ \A k \in DOMAIN login.puts : login.puts[k].ok)
        => IF PriorityToken = Null
           THEN login.result \in {"rejected", "exit"}
           ELSE login.result = PriorityToken /\ env.sessionToken = PriorityToken

\* C20: a remote registration goes to the guild-scoped route exactly when
\* development mode is set and a test guild id is configured, and to the
\* application-global route in every other configuration.
C20_GuildRouteOnlyInDevelopmentWithGuild ==
    /\ \A k \in DOMAIN login.puts :
          login.puts[k].route =
              (IF env.NODE_ENV = "development" /\ env.TEST_GUILD_ID # Null
               THEN "applicationGuildCommands" ELSE "applicationCommands")
    /\ login.pc = "put" =>
          login.route =
              (IF env.NODE_ENV = "development" /\ env.TEST_GUILD_ID # Null
               THEN "applicationGuildCommands" ELSE "applicationCommands")

C20_Witness ==
    /\ login.puts # <<>> /\ login.puts[1].route = "applicationGuildCommands"
    /\ login.puts[1].ok /\ login.result = login.token

\* the registration call of the last login is under way or has been made
PutIssued == login.pc = "put" \/ login.puts # <<>>

\* C21: in development mode without a test guild id, login issues the
\* warning and completes the delay before the application-global
\* registration call is made; in no other configuration is the delay
\* performed.
C21_DelayOnlyBeforeGlobalFallback ==
    /\ []((PutIssued /\ env.NODE_ENV = "development" /\ env.TEST_GUILD_ID = Null)
            => /\ login.slept
               /\ login.logged # <<>> /\ login.logged[1] = "No guild ID"
               /\ login.route = "applicationCommands")
    /\ [](login.pc = "sleep" => login.slept /\ login.puts = <<>>)
    /\ [](login.slept => env.NODE_ENV = "development" /\ env.TEST_GUILD_ID = Null)
    /\ [][(login'.pc = "put" /\ login.pc # "put" /\ login'.slept)
            => login.pc = "sleep"]_vars

C21_Witness ==
    /\ env.NODE_ENV = "development" /\ env.TEST_GUILD_ID = Null
    /\ login.slept
    /\ Len(login.puts) = 1 /\ login.puts[1].route = "applicationCommands"
    /\ login.puts[1].ok /\ login.result = login.token

(***************************************************************************)
(* Properties over process lifetimes (SpecRelogin)                         *)
(***************************************************************************)
\* C8: of two logins in two process lifetimes sharing the store, each made
\* after the same definition files were loaded and all loads had settled, the
\* first having registered successfully, the second makes no remote
\* registration call, whatever the order in which the loads completed.
C8_ReloginSkipsWhateverTheOrder ==
    (/\ Compared /\ login.prev.checked
     /\ login.prev.lifetime = 1 /\ lifetime = 2
     /\ login.prev.put /\ login.prev.ok
     /\ login.prev.settled /\ login.settled
     /\ login.prev.loaded = login.loaded
     /\ rejected = {})
        => login.puts = <<>> /\ login.pc # "put"

(***************************************************************************)
(* Properties of the directory loader (SpecLoad)                           *)
(***************************************************************************)
UniqueKeys(m) == \A j, k \in DOMAIN m : m[j][1] = m[k][1] => j = k

\* the files of a directory that the loader does not skip
LoadableIn(dir) == {n \in ReadDir(dir) : isValidRegex(n) /\ n # "index.js"}

\* the definition files of a group directory are in the group's map
GroupComplete(groupPath) ==
    /\ groupPath \in DOMAIN modules
    /\ UniqueKeys(modules[groupPath].subcommands)
    /\ \A n \in LoadableIn(Front(groupPath)) :
           MapHas(modules[groupPath].subcommands, files[Front(groupPath) \o <<n>>].def.name)

\* the files and group directories of an index directory are in the maps of
\* the registered index
IndexComplete(dir) ==
    LET indexDef == files[dir \o <<"index.js">>].def
        indexPath == MapGet(commands, indexDef.name)
    IN  /\ MapHas(commands, indexDef.name)
        /\ indexPath \in DOMAIN modules
        /\ UniqueKeys(modules[indexPath].subcommands)
        /\ UniqueKeys(modules[indexPath].subcommandGroups)
        /\ \A n \in LoadableIn(dir) :
               IF IsDir(dir \o <<n>>)
               THEN /\ MapHas(modules[indexPath].subcommandGroups,
                              files[dir \o <<n, "index.js">>].def.name)
                    /\ GroupComplete(MapGet(modules[indexPath].subcommandGroups,
                                            files[dir \o <<n, "index.js">>].def.name))
               ELSE MapHas(modules[indexPath].subcommands, files[dir \o <<n>>].def.name)

\* every definition of the directory of a load call is in its registry
CallComplete(c) ==
    CASE c.fn = "loadCommandsFrom" ->
            \A n \in {m \in ReadDir(c.url.path) : isValidRegex(m)} :
                IF IsDir(c.url.path \o <<n>>)
                THEN IndexComplete(c.url.path \o <<n>>)
                ELSE MapHas(commands, files[c.url.path \o <<n>>].def.name)
      [] c.fn = "loadContextMenusFrom" ->
            \A f \in ActiveUnder(c.url.path) :
                MapHas(IF files[f].def.type = "User" THEN ctxUser ELSE ctxMessage,
                       files[f].def.name)
      [] OTHER ->
            \A f \in ActiveUnder(c.url.path) : MapHas(modals, files[f].def.name)

\* C9: once the loads started by loadCommandsFrom, loadContextMenusFrom and
\* loadModalsFrom have all settled, none of them rejected, every non-ignored
\* definition of the loaded directories is in its registry under its name,
\* no registry holds a name twice, and every non-ignored, non-index file of
\* a subcommand directory is in the subcommand map of its index or group.
C9_SettledLoadsRegisterEverything ==
    (calls # {} /\ pending = {} /\ rejected = {})
        => /\ \A c \in calls : CallComplete(c)
           /\ UniqueKeys(commands) /\ UniqueKeys(ctxUser)
           /\ UniqueKeys(ctxMessage) /\ UniqueKeys(modals)

\* the name -> definition Maps of the client and of the loaded definitions
Registries ==
    {commands, ctxUser, ctxMessage, modals}
    \cup {modules[p].subcommands : p \in DOMAIN modules}
    \cup {modules[p].subcommandGroups : p \in DOMAIN modules}

\* names looked up, registered or not
ProbeNames ==
    {"ping", "modify", "add", "del", "grp", "report", "pin", "form", "foo",
     "stray", "hidden"}

\* the file whose export the load t inserts, and the Map it inserts it into
\* in the state reached
InsertedFile(t) ==
    IF t.op \in {"loadSubcommand", "group"} THEN t.path \o <<"index.js">> ELSE t.path

InsertedInto(t) ==
    CASE t.op \in {"loadCommand", "loadSubcommand"} -> commands'
      [] t.op \in {"subcommand", "groupSubcommand"} -> modules'[t.owner].subcommands
      [] t.op = "group" -> modules'[t.owner].subcommandGroups
      [] t.op = "contextMenu" ->
            IF files[t.path].def.type = "User" THEN ctxUser' ELSE ctxMessage'
      [] OTHER -> modals'

\* C22: in every registry namespace, inserting a definition under a name
\* already present replaces the previous entry without raising an error, so
\* a namespace never holds two definitions under one name and the one kept
\* is the most recently inserted; looking up an absent name yields an absent
\* value and never raises.
C22_InsertionOverwritesLookupNeverThrows ==
    /\ [](\A m \in Registries :
            /\ UniqueKeys(m)
            /\ \A n \in ProbeNames : ~MapHas(m, n) => MapGet(m, n) = Nil)
    /\ [][\A t \in pending \ pending' :
            IsFile(InsertedFile(t))
                => /\ t \notin rejected'
                   /\ MapGet(InsertedInto(t), files[InsertedFile(t)].def.name)
                          = InsertedFile(t)]_vars

C22_Witness ==
    /\ files = ClashModalFS /\ pending = {} /\ Cardinality(calls) = 1
    /\ modals = <<<<"form", FormJs>>>>
    /\ {FormJs, SheetJs} \subseteq DOMAIN modules

(***************************************************************************)
(* Events: on, once and loadEventsFrom                                     *)
(***************************************************************************)
\* `this`, the facade instance
Self == "client"

\* the arguments of listener(...args), without the facade instance
ListenerCallWithoutSelf(args) == args

\* (...args) => listener(this, ...args)
ListenerCall(args) == <<Self>> \o args

\* a listener added to the emitter by super.on or super.once; via: the
\* facade function that was called; at: the emissions that came before
Subscription(method, via, event, listener) ==
    [method |-> method, via |-> via, event |-> event, listener |-> listener,
     at |-> Len(emissions), removed |-> FALSE]

\* on(event, listener)
On(event, listener) ==
    /\ ~exited
    /\ Len(subscriptions) < MaxSubscriptions
    /\ subscriptions' = Append(subscriptions, Subscription("on", "on", event, listener))
    /\ UNCHANGED <<files, registryVars, pending, rejected, calls, handlers, cur, runs,
                   emissions, stalled, loginVars, exited>>

\* once(event, listener)
Once(event, listener) ==
    /\ ~exited
    /\ Len(subscriptions) < MaxSubscriptions
    /\ subscriptions' = Append(subscriptions, Subscription("once", "once", event, listener))
    /\ UNCHANGED <<files, registryVars, pending, rejected, calls, handlers, cur, runs,
                   emissions, stalled, loginVars, exited>>

\* loadEventsFrom(url)
LoadEventsFrom(url) ==
    /\ ~exited
    /\ Cardinality(calls) < MaxLoadCalls
    /\ IsDir(url.path)
    /\ calls' = calls \cup {Call("loadEventsFrom", url)}
    /\ pending' = pending \cup {Task(Call("loadEventsFrom", url), "event", f, Nil) :
                                 f \in ActiveUnder(url.path)}
    /\ UNCHANGED <<files, registryVars, rejected, dispatchVars, loginVars, exited>>

\* the subscription in which every event definition is taken for a lasting one
MethodAlwaysOn(event) == "on"

\* event.once ? "once" : "on"
MethodOf(event) == IF event.once THEN "once" ELSE "on"

\* the callback of loadEventsFrom, run when a file is loaded
EventSettles(t) ==
    /\ ~exited
    /\ t \in pending /\ t.op = "event"
    /\ LET loaded == Imported(t.path)
           event == loaded[t.path]
       IN  /\ modules' = loaded
           /\ subscriptions' = Append(subscriptions,
                  Subscription(MethodOf(event), "loadEventsFrom", event.name, t.path))
    /\ pending' = pending \ {t}
    /\ UNCHANGED <<files, commands, ctxUser, ctxMessage, modals, rejected, calls,
                   handlers, cur, runs, emissions, stalled, loginVars, exited>>

\* the listeners of an event that the emitter still holds, in the order added
Live(event) ==
    SelectSeq([k \in DOMAIN subscriptions |-> k],
              LAMBDA k : subscriptions[k].event = event /\ ~subscriptions[k].removed)

\* the platform emits an event: the emitter calls its listeners in the order
\* they were added, a listener added with once being removed before its call
EmitEvent(event, args) ==
    /\ ~exited
    /\ Len(emissions) < MaxEmissions
    /\ LET live == Live(event)
       IN  /\ emissions' = Append(emissions,
                  [event |-> event, args |-> args,
                   invoked |-> [j \in DOMAIN live |->
                                   [sub |-> live[j],
                                    listener |-> subscriptions[live[j]].listener,
                                    received |-> ListenerCall(args)]]])
           /\ subscriptions' =
                  [k \in DOMAIN subscriptions |->
                      IF subscriptions[k].event = event /\ subscriptions[k].method = "once"
                      THEN [subscriptions[k] EXCEPT !.removed = TRUE]
                      ELSE subscriptions[k]]
    /\ UNCHANGED <<files, registryVars, pending, rejected, calls, handlers, cur, runs,
                   stalled, loginVars, exited>>

EventsDir == Bot \o <<"events">>

ReadyJs == EventsDir \o <<"ready.js">>

UpdateJs == EventsDir \o <<"update.js">>

\* a bot folder with a one-time event, a lasting event and an ignored file
EventsFS ==
    (Bot :> DirEntry) @@ (EventsDir :> DirEntry) @@
    (ReadyJs :> FileEntry(EventData("ready", TRUE))) @@
    (UpdateJs :> FileEntry(EventData("messageUpdate", FALSE))) @@
    (EventsDir \o <<"_x.js">> :> FileEntry(EventData("ready", FALSE)))

\* a listener function passed to on or once by the bot's own code
UserListener == <<"listener">>

EventNames == {"ready", "messageUpdate"}

\* ClientEvents[T]: the arguments the platform emits with an event
NativeArgs(event) ==
    IF event = "ready" THEN {<<"readyClient">>} ELSE {<<"oldMessage", "newMessage">>}

InitEvents ==
    /\ files = EventsFS
    /\ Constructed
    /\ store = <<>>
    /\ env = DefaultEnv
    /\ lifetime = 1

NextEvents ==
    \/ NotCalled("loadEventsFrom") /\ LoadEventsFrom(URL(EventsDir, TRUE))
    \/ \E t \in pending : EventSettles(t)
    \/ \E event \in EventNames : On(event, UserListener)
    \/ \E event \in EventNames : Once(event, UserListener)
    \/ \E event \in EventNames : \E args \in NativeArgs(event) : EmitEvent(event, args)

SpecEvents == InitEvents /\ [][NextEvents]_vars

(***************************************************************************)
(* Properties of the event subscriptions (SpecEvents)                      *)
(***************************************************************************)
\* the emissions for which the k-th listener was invoked
InvokedFor(k) ==
    {e \in DOMAIN emissions :
        \E j \in DOMAIN emissions[e].invoked : emissions[e].invoked[j].sub = k}

\* the emissions of its event after the k-th listener was subscribed
EmittedSince(k) ==
    {e \in DOMAIN emissions :
        e > subscriptions[k].at /\ emissions[e].event = subscriptions[k].event}

\* the k-th listener is a one-time one: subscribed through once, or loaded
\* from an event definition with the once flag
OneTime(k) ==
    IF subscriptions[k].via = "loadEventsFrom"
    THEN files[subscriptions[k].listener].def.once
    ELSE subscriptions[k].via = "once"

Ignored(path) == \E k \in DOMAIN path : path[k] \in IgnoredNames

IsIndex(path) == path # <<>> /\ path[Len(path)] = "index.js"

\* C28: no file or directory whose name starts with the ignore marker is
\* ever loaded or descended by loadCommandsFrom or loadSubcommand, at any
\* nesting level, and the index file of a subcommand directory or of a group
\* directory is never attached as a subcommand.
C28_IgnoredNeverLoadedIndexNeverAttached ==
    /\ \A p \in DOMAIN modules : ~Ignored(p)
    /\ \A t \in pending \cup rejected : ~Ignored(t.path)
    /\ \A p \in DOMAIN modules :
          /\ \A k \in DOMAIN modules[p].subcommands :
                 ~IsIndex(modules[p].subcommands[k][2])
          /\ \A k \in DOMAIN modules[p].options :
                 IsIndex(modules[p].options[k]) =>
                    /\ modules[p].interface = "SubcommandIndexData"
                    /\ modules[modules[p].options[k]].interface = "SubcommandGroupData"
                    /\ \E j \in DOMAIN modules[p].subcommandGroups :
                           modules[p].subcommandGroups[j][2] = modules[p].options[k]
    /\ \A t \in pending : t.op \in {"subcommand", "groupSubcommand"} => ~IsIndex(t.path)

C28_Witness ==
    /\ files = RichFS(DefaultCfg) /\ pending = {} /\ rejected = {}
    /\ DOMAIN modules = {PingJs, ModifyIndexJs, AddJs, GrpIndexJs, DelJs}
    /\ MapKeys(commands) = {"ping", "modify"}
    /\ modules[ModifyIndexJs].subcommands = <<<<"add", AddJs>>>>
    /\ modules[ModifyIndexJs].subcommandGroups = <<<<"grp", GrpIndexJs>>>>
    /\ modules[GrpIndexJs].subcommands = <<<<"del", DelJs>>>>

\* the subcommands appended to the builder of an index or of a group
SubcommandOptions(p) ==
    SelectSeq(modules[p].options, LAMBDA q : modules[q].interface = "SubcommandData")

\* C29: after the loads of a subcommand directory settle, the subcommand
\* names in the builder schema of the index (and of each group) are exactly
\* the keys of its name -> Subcommand map, each appearing once, also when
\* two files define the same subcommand name.
C29_BuilderNamesAreMapKeys ==
    (calls # {} /\ pending = {} /\ rejected = {})
        => \A p \in DOMAIN modules :
              modules[p].interface \in {"SubcommandIndexData", "SubcommandGroupData"}
                 => LET opts == SubcommandOptions(p)
                    IN  /\ {modules[opts[k]].name : k \in DOMAIN opts}
                              = MapKeys(modules[p].subcommands)
                        /\ UniqueKeys(modules[p].subcommands)
                        /\ \A j, k \in DOMAIN opts :
                               modules[opts[j]].name = modules[opts[k]].name => j = k

(***************************************************************************)
(* Properties of loading against login (SpecLogin)                         *)
(***************************************************************************)
\* the step is a call of loadCommandsFrom
CallsLoadCommandsFrom == \E c \in calls' \ calls : c.fn = "loadCommandsFrom"

\* C30: loadCommandsFrom does not wait for its loads: in the state right
\* after it returns, no definition it discovered has been inserted into the
\* command registry; the insertions happen later, one per completed load,
\* in completion order, so a login that runs before they settle observes a
\* registry lacking those definitions.
C30_LoadCommandsFromDoesNotWait ==
    /\ [][CallsLoadCommandsFrom
            => /\ commands' = commands
               /\ modules' = modules
               /\ pending' = pending \cup
                     {t \in pending' : t.op \in {"loadCommand", "loadSubcommand"}}
               /\ pending' # pending]_vars
    /\ [][commands' # commands
            => \E t \in pending \ pending' :
                  /\ pending \ pending' = {t}
                  /\ t.op \in {"loadCommand", "loadSubcommand"}
                  /\ LET name == files[InsertedFile(t)].def.name
                     IN  IF MapHas(commands, name)
                         THEN /\ Len(commands') = Len(commands)
                              /\ MapKeySeq(commands') = MapKeySeq(commands)
                         ELSE commands' = Append(commands, <<name, InsertedFile(t)>>)]_vars
    /\ [][ComparesNow
            => [k \in DOMAIN login'.body |-> login'.body[k].name] =
                  MapKeySeq(commands) \o MapKeySeq(ctxUser) \o MapKeySeq(ctxMessage)]_vars

C30_Witness ==
    /\ login.checked /\ ~login.settled /\ login.result = login.token
    /\ \A k \in DOMAIN login.body : login.body[k].name # "ping"
    /\ \E k \in DOMAIN login.body : login.body[k].name = "modify"
    /\ pending = {}
    /\ MapKeySeq(commands) = <<"modify", "ping">>

(***************************************************************************)
(* SpecNamespaces: one name in several registries, loaded and dispatched   *)
(***************************************************************************)
\* a bot folder whose command, context menus and modal all export "ping"
SameNameFS ==
    (Bot :> DirEntry) @@ (CommandsDir :> DirEntry) @@
    (PingJs :> FileEntry(CommandData("ping", NoPerm))) @@
    (ContextsDir :> DirEntry) @@
    (ReportJs :> FileEntry(ContextMenuData("ping", "User", NoPerm))) @@
    (PinJs :> FileEntry(ContextMenuData("ping", "Message", NoPerm))) @@
    (FlagJs :> FileEntry(ContextMenuData("flag", "User", NoPerm))) @@
    (ModalsDir :> DirEntry) @@
    (FormJs :> FileEntry(ModalData("ping")))

InitNamespaces ==
    /\ files = SameNameFS
    /\ Constructed
    /\ store = <<>>
    /\ env = DefaultEnv
    /\ lifetime = 1

NamespaceInteractions ==
    {[kind |-> k, commandName |-> n, group |-> Null, subcommand |-> Null,
      customId |-> <<>>, inGuild |-> TRUE, memberPerms |-> {}] :
        k \in {"UserContextMenu", "MessageContextMenu"}, n \in {"ping", "flag", "foo"}}

NextNamespaces ==
    \/ NotCalled("loadCommandsFrom") /\ LoadCommandsFrom(URL(CommandsDir, TRUE))
    \/ NotCalled("loadContextMenusFrom") /\ LoadContextMenusFrom(URL(ContextsDir, TRUE))
    \/ NotCalled("loadModalsFrom") /\ LoadModalsFrom(URL(ModalsDir, TRUE))
    \/ \E t \in pending :
          \/ LoadCommandSettles(t)
          \/ ContextMenuSettles(t)
          \/ ModalSettles(t)
    \/ UseDefaultInteractionHandler
    \/ cur = NoInteraction /\ \E i \in NamespaceInteractions, beh \in Behaviours : Emit(i, beh)
    \/ EmissionDone

SpecNamespaces == InitNamespaces /\ [][NextNamespaces]_vars

\* the files registered in a namespace
Registered(m) == {m[k][2] : k \in DOMAIN m}

\* C31: the four namespaces (commands, user context menus, message context
\* menus, flat modals) are independent: an insertion into one leaves the
\* other three unchanged, the same name may be present in several of them
\* at once, and a User context-menu interaction is resolved only against the
\* user namespace and a Message one only against the message namespace.
C31_NamespacesIndependent ==
    /\ [][/\ commands' # commands => UNCHANGED <<ctxUser, ctxMessage, modals>>
          /\ ctxUser' # ctxUser => UNCHANGED <<commands, ctxMessage, modals>>
          /\ ctxMessage' # ctxMessage => UNCHANGED <<commands, ctxUser, modals>>
          /\ modals' # modals => UNCHANGED <<commands, ctxUser, ctxMessage>>]_vars
    /\ [](\A f \in DOMAIN modules :
            LET def == files[f].def
                holders == {n \in {"commands", "User", "Message", "modals"} :
                              f \in Registered(CASE n = "commands" -> commands
                                                 [] n = "User" -> ctxUser
                                                 [] n = "Message" -> ctxMessage
                                                 [] OTHER -> modals)}
            IN  holders = {CASE def.interface = "CommandData" -> "commands"
                             [] def.interface = "ModalData" -> "modals"
                             [] OTHER -> def.type})
    /\ [][(/\ cur = NoInteraction /\ Len(runs') = 1
           /\ cur'.kind \in {"UserContextMenu", "MessageContextMenu"})
            => LET own == IF cur'.kind = "UserContextMenu" THEN ctxUser ELSE ctxMessage
               IN  IF MapHas(own, cur'.commandName)
                   THEN /\ Len(runs'[1].invoked) = 1
                        /\ runs'[1].invoked[1].module = MapGet(own, cur'.commandName)
                        /\ ~HasSent(runs'[1], "ContextNotFound")
                   ELSE /\ runs'[1].invoked = <<>>
                        /\ runs'[1].sent =
                              <<Sent("ContextNotFound", cur'.commandName, "reply")>>]_vars

C31_Witness ==
    /\ MapHas(commands, "ping") /\ MapHas(ctxUser, "ping") /\ MapHas(ctxMessage, "ping")
    /\ MapGet(ctxUser, "ping") = ReportJs /\ MapGet(ctxMessage, "ping") = PinJs
    /\ MapHas(ctxUser, "flag")
    /\ HandledOnce /\ cur.kind = "MessageContextMenu" /\ cur.commandName = "flag"
    /\ runs[1].invoked = <<>>

(***************************************************************************)
(* Properties of the synthesized executor (SpecLoad)                       *)
(***************************************************************************)
\* C32: loadSubcommand generates the synthesized dispatch executor only
\* when the index definition has no executor: an index that supplies its own
\* execute keeps it, and loading the same index definition again never
\* replaces an executor that is already set.
C32_SynthesizedOnlyWhenAbsent ==
    /\ [](\A p \in DOMAIN modules :
            modules[p].interface = "SubcommandIndexData"
               => modules[p].execute =
                     (IF files[p].def.execute = Null THEN "synth" ELSE files[p].def.execute))
    /\ [][\A p \in DOMAIN modules :
            modules[p].execute # Null => modules'[p].execute = modules[p].execute]_vars

C32_Witness ==
    /\ files = RichFS(OwnExecuteCfg)
    /\ \E c \in calls : c.fn = "loadCommandsFrom" /\ c.n = 1
    /\ pending = {} /\ rejected = {}
    /\ modules[ModifyIndexJs].execute = "user"
    /\ Len(modules[ModifyIndexJs].options) = 4


(***************************************************************************)
(* SpecStall: interactions arriving while earlier listeners are suspended  *)
(* on executors that never settle                                          *)
(***************************************************************************)
Returning == [ack |-> "none", fails |-> FALSE]

Hanging == [ack |-> "none", fails |-> FALSE, hangs |-> TRUE]

StallInteractions ==
    {i \in Interactions :
        /\ i.memberPerms \in {{}, {"ManageGuild"}}
        /\ i.kind \in {"ChatInput", "UserContextMenu"}
        /\ i.commandName \in {"ping", "foo", "report"}
        /\ i.subcommand = Null}

NextStall ==
    \/ UseDefaultInteractionHandler
    \/ \E i \in StallInteractions : Emit(i, Returning)
    \/ Len(stalled) < MaxStalled /\ \E i \in StallInteractions : Emit(i, Hanging)
    \/ EmissionDone

SpecStall == InitDispatch /\ [][NextStall]_vars

\* the executor a chat-input or context-menu interaction resolves to
ResolvedExecutor(i) ==
    CASE i.kind = "ChatInput" -> MapGet(commands, i.commandName)
      [] i.kind = "UserContextMenu" -> MapGet(ctxUser, i.commandName)
      [] OTHER -> Nil

\* the permission test lets the interaction through to its executor
Permitted(i) ==
    LET p == modules[ResolvedExecutor(i)].permissions
    IN  \/ p = NoPerm
        \/ i.inGuild /\ Has(i.memberPerms, p)
        \/ i.kind = "ChatInput" /\ ~i.inGuild

\* C33: an executor that never resolves for one interaction does not stop
\* the dispatch of another: with listeners suspended, the next interaction
\* is still taken, resolved against the registries and has its executor
\* invoked by every installed listener (an unknown command its not-found
\* outcome), and no dispatch step changes a registry.
C33_SuspendedExecutorBlocksNothing ==
    /\ [](cur = NoInteraction /\ ~exited
            => ENABLED (\E i \in StallInteractions : Emit(i, Returning)))
    /\ [][cur = NoInteraction /\ cur' # NoInteraction /\ stalled # <<>>
            => /\ Len(runs') = handlers
               /\ \A k \in DOMAIN runs' :
                    IF ResolvedExecutor(cur') # Nil /\ Permitted(cur')
                    THEN runs'[k].invoked = <<[module |-> ResolvedExecutor(cur'),
                                               fn |-> "execute", synth |-> FALSE]>>
                    ELSE runs'[k].invoked = <<>>]_vars
    /\ [][cur' # cur \/ runs' # runs \/ stalled' # stalled
            => UNCHANGED <<files, registryVars>>]_vars

C33_Witness ==
    /\ Len(stalled) = 2
    /\ stalled[1].commandName = "ping" /\ stalled[2].commandName = "report"
    /\ cur.commandName = "ping" /\ cur.kind = "ChatInput" /\ cur.beh = Returning
    /\ Len(runs) = 2
    /\ \A k \in DOMAIN runs :
          /\ runs[k].invoked = <<[module |-> PingJs, fn |-> "execute", synth |-> FALSE]>>
          /\ ~runs[k].awaiting


(***************************************************************************)
(* SpecResolve: interactions of every kind over the equipped bot folder    *)
(***************************************************************************)
ResolveInteractions ==
    {i \in ChatInputSample \cup ContextMenus : i.memberPerms \in {{}, {"ManageGuild"}}}
        \cup Autocompletes \cup Components

NextResolve ==
    \/ UseDefaultInteractionHandler
    \/ cur = NoInteraction /\ \E i \in ResolveInteractions, beh \in Behaviours : Emit(i, beh)
    \/ EmissionDone

SpecResolve == InitComponents /\ [][NextResolve]_vars

\* the fields of an interaction the dispatcher reads
DispatchInputs(i) ==
    [kind |-> i.kind, commandName |-> i.commandName, group |-> i.group,
     subcommand |-> i.subcommand, customId |-> i.customId, inGuild |-> i.inGuild,
     memberPerms |-> i.memberPerms]

RanUserCode(r) == r.handled # <<>> \/ \E k \in DOMAIN r.invoked : ~r.invoked[k].synth

\* what one listener resolved an interaction to: the executors and handlers
\* it invoked with their arguments, or what it answered when it invoked none
Resolution(r) ==
    [invoked |-> r.invoked, handled |-> r.handled,
     outcome |-> IF RanUserCode(r) THEN <<>> ELSE <<r.sent, r.responded, r.logged>>]

Resolutions(rs) == [k \in DOMAIN rs |-> Resolution(rs[k])]

OldDir == Bot \o <<"old">>

OldSubDir == OldDir \o <<"sub">>

OldDraftDir == OldDir \o <<"_draft">>

\* the characters of the names in the sample folder
Chars(name) ==
    CASE name = "ping.js" -> <<"p", "i", "n", "g", ".", "j", "s">>
      [] name = "pin .js" -> <<"p", "i", "n", " ", ".", "j", "s">>
      [] name = "ab xjs"  -> <<"a", "b", " ", "x", "j", "s">>
      [] name = "_x.js"   -> <<"_", "x", ".", "j", "s">>
      [] name = "_y .js"  -> <<"_", "y", " ", ".", "j", "s">>
      [] name = "del.js"  -> <<"d", "e", "l", ".", "j", "s">>
      [] name = "in .js"  -> <<"i", "n", " ", ".", "j", "s">>
      [] name = "ok .js"  -> <<"o", "k", " ", ".", "j", "s">>
      [] name = "sub"     -> <<"s", "u", "b">>
      [] name = "_draft"  -> <<"_", "d", "r", "a", "f", "t">>
      [] name = "old"     -> <<"o", "l", "d">>
      [] OTHER            -> <<>>

Whitespace == {" ", "\t"}

LineTerminators == {"\n", "\r"}

\* /^[^_].+\.js$/: the filter with the dot of the extension escaped
activeRegexEscapedDot(name) ==
    LET c == Chars(name)
        n == Len(c)
    IN  /\ n >= 5
        /\ c[1] # "_"
        /\ \A k \in 2..(n - 3) : c[k] \notin LineTerminators
        /\ c[n - 2] = "." /\ c[n - 1] = "j" /\ c[n] = "s"

\* /^[^_].+\s.js$/: one character that is not an underscore, one or more
\* characters, a whitespace character, any character, then "js"
activeRegex(name) ==
    LET c == Chars(name)
        n == Len(c)
    IN  /\ n >= 6
        /\ c[1] # "_"
        /\ \A k \in 2..(n - 4) : c[k] \notin LineTerminators
        /\ c[n - 3] \in Whitespace
        /\ c[n - 2] \notin LineTerminators
        /\ c[n - 1] = "j" /\ c[n] = "s"

\* /^[^_]/
activeFolderRegex(name) == Len(Chars(name)) >= 1 /\ Chars(name)[1] # "_"

\* the directories iterateDirent(url) reads, url included: the entries that
\* are directories with an active name, each under new URL(name, url)
RECURSIVE DirentWalk(_)
DirentWalk(url) ==
    IF ~IsDir(url.path) THEN {url}
    ELSE {url} \cup
         UNION {DirentWalk(NewURL(name, url)) :
                  name \in {e \in ReadDir(url.path) :
                              IsDir(url.path \o <<e>>) /\ activeFolderRegex(e)}}

\* the files iterateDirent(url) imports: import(`${url}/${file.name}`)
DirentImports(url) ==
    UNION {{Concat(d, name).path :
               name \in {e \in ReadDir(d.path) :
                           /\ ~(IsDir(d.path \o <<e>>) /\ activeFolderRegex(e))
                           /\ activeRegex(e)}} :
             d \in {u \in DirentWalk(url) : IsDir(u.path)}}

\* loadContextMenusFrom(url) of that revision: iterateDirent(url, callback)
IterateDirent(url) ==
    /\ ~exited
    /\ Cardinality(calls) < MaxLoadCalls
    /\ IsDir(url.path)
    /\ calls' = calls \cup {Call("iterateDirent", url)}
    /\ pending' = pending \cup {Task(Call("iterateDirent", url), "contextMenu", f, Nil) :
                                 f \in DirentImports(url)}
    /\ rejected' = rejected \cup {Task(Call("iterateDirent", url), "readdir", d.path, Nil) :
                                   d \in {u \in DirentWalk(url) : ~IsDir(u.path)}}
    /\ UNCHANGED <<files, registryVars, dispatchVars, loginVars, exited>>

DirentFS ==
    (Bot :> DirEntry) @@ (OldDir :> DirEntry) @@
    (OldDir \o <<"ping.js">> :> FileEntry(ContextMenuData("ping", "User", NoPerm))) @@
    (OldDir \o <<"pin .js">> :> FileEntry(ContextMenuData("pin", "Message", NoPerm))) @@
    (OldDir \o <<"ab xjs">> :> FileEntry(ContextMenuData("ab", "User", NoPerm))) @@
    (OldDir \o <<"_x.js">> :> FileEntry(ContextMenuData("x", "User", NoPerm))) @@
    (OldDir \o <<"_y .js">> :> FileEntry(ContextMenuData("y", "Message", NoPerm))) @@
    (OldSubDir :> DirEntry) @@
    (OldSubDir \o <<"del.js">> :> FileEntry(ContextMenuData("del", "User", NoPerm))) @@
    (OldSubDir \o <<"in .js">> :> FileEntry(ContextMenuData("in", "Message", NoPerm))) @@
    (OldDraftDir :> DirEntry) @@
    (OldDraftDir \o <<"ok .js">> :> FileEntry(ContextMenuData("ok", "User", NoPerm)))

InitDirent ==
    /\ files = DirentFS
    /\ Constructed
    /\ store = <<>>
    /\ env = DefaultEnv
    /\ lifetime = 1

DirentURLs == {URL(OldDir, TRUE), URL(OldDir, FALSE), URL(OldSubDir, TRUE)}

NextDirent ==
    \/ \E url \in DirentURLs : IterateDirent(url)
    \/ \E t \in pending : ContextMenuSettles(t)

SpecDirent == InitDirent /\ [][NextDirent]_vars

StartsWithUnderscore(name) == Len(Chars(name)) >= 1 /\ Chars(name)[1] = "_"

HasJsExtension(name) ==
    LET c == Chars(name)
        n == Len(c)
    IN  n >= 3 /\ c[n - 2] = "." /\ c[n - 1] = "j" /\ c[n] = "s"

\* the files below root that the documentation of the walk promises to load
PromisedUnder(root) ==
    {f \in DOMAIN files :
        /\ IsFile(f)
        /\ Len(f) > Len(root)
        /\ SubSeq(f, 1, Len(root)) = root
        /\ HasJsExtension(f[Len(f)])
        /\ \A k \in (Len(root) + 1)..Len(f) : ~StartsWithUnderscore(f[k])}

\* C35: in the revision that walks directories with iterateDirent, once the
\* imports of a call have settled every .js file below its directory whose
\* name and whose directories' names do not start with an underscore has
\* been loaded and passed to the callback, and nothing whose name starts
\* with an underscore is ever loaded.
C35_EveryActiveJsFileLoaded ==
    /\ \A c \in calls :
          (c.fn = "iterateDirent" /\ \A t \in pending : t.call # c)
              => \A f \in PromisedUnder(c.url.path) :
                    f \in DOMAIN modules /\ f \in Registered(ctxUser) \cup Registered(ctxMessage)
    /\ \A f \in DOMAIN modules : \A k \in DOMAIN f : ~StartsWithUnderscore(f[k])


(***************************************************************************)
(* The persisted signature (SpecLogin)                                     *)
(***************************************************************************)
SucceededPut == login.puts # <<>> /\ login.puts[Len(login.puts)].ok

\* C36: the value persisted under the reserved key changes only in the step
\* in which a remote registration call completes successfully, and becomes
\* the canonical signature of exactly the body that call sent; so at every
\* point it is the value it had when the login began or that signature, and
\* a login that skipped the registration or whose call failed leaves it as
\* it was.
C36_StoreHoldsSignatureOfSucceededPut ==
    /\ [][store' # store
            => /\ login.pc = "put"
               /\ login'.puts = Append(login.puts, [route |-> login.route,
                                                    body |-> login.body, ok |-> TRUE])
               /\ store' = Signature(login.body)]_vars
    /\ [](IF SucceededPut THEN store = Signature(login.puts[Len(login.puts)].body)
          ELSE store = login.storeBefore)

C36_Witness ==
    /\ SucceededPut /\ login.prev.put /\ login.prev.ok
    /\ store = Signature(login.body) /\ store # login.storeBefore
    /\ login.storeBefore = Signature(login.prev.body)
    /\ Signature(Body) # store
    /\ Len(login.body) = 1


(***************************************************************************)
(* SpecWindow: chat-input interactions dispatched while loadSubcommand is  *)
(* still attaching subcommands                                             *)
(***************************************************************************)
InitWindow ==
    /\ files = RichFS(DefaultCfg)
    /\ Constructed
    /\ store = <<>>
    /\ env = DefaultEnv
    /\ lifetime = 1

WindowInteractions ==
    {i \in ChatInputs :
        /\ i.commandName = "modify" /\ i.inGuild /\ i.memberPerms = {}
        /\ <<i.group, i.subcommand>> \in
              {<<Null, "add">>, <<"grp", "del">>, <<Null, "bad">>, <<"grp", "add">>}}

NextWindow ==
    \/ NotCalled("loadCommandsFrom") /\ LoadCommandsFrom(URL(CommandsDir, TRUE))
    \/ \E t \in pending :
          \/ LoadCommandSettles(t)
          \/ LoadSubcommandSettles(t)
          \/ SubcommandSettles(t)
          \/ GroupSettles(t)
          \/ GroupSubcommandSettles(t)
    \/ UseDefaultInteractionHandler
    \/ cur = NoInteraction /\ \E i \in WindowInteractions : Emit(i, Returning)
    \/ EmissionDone

SpecWindow == InitWindow /\ [][NextWindow]_vars

\* the subcommand named by i is one that a load in progress has discovered
\* and not yet attached
Awaited(i) ==
    \E t \in pending :
        \/ /\ t.op = "subcommand"
           /\ modules[t.owner].name = i.commandName
           /\ i.group = Null /\ i.subcommand = files[t.path].def.name
        \/ /\ t.op = "group"
           /\ modules[t.owner].name = i.commandName
           /\ i.group = files[t.path \o <<"index.js">>].def.name
           /\ \E n \in ReadDir(t.path) :
                 /\ n # "index.js" /\ isValidRegex(n)
                 /\ i.subcommand = files[t.path \o <<n>>].def.name
        \/ /\ t.op = "groupSubcommand"
           /\ MapGet(commands, i.commandName) # Nil
           /\ MapGet(modules[MapGet(commands, i.commandName)].subcommandGroups, i.group) = t.owner
           /\ i.subcommand = files[t.path].def.name

\* C37: loadSubcommand inserts the index into the command registry before
\* a subcommand or group discovered in the same call is attached: while such
\* an attachment is outstanding the index is already registered and lacks
\* the subcommand, and a chat-input interaction for it dispatched in that
\* window gets the "could not find subcommand" reply from the synthesized
\* executor, no subcommand executor being invoked.
C37_IndexRegisteredBeforeAttachments ==
    /\ [](\A t \in pending : t.op \in {"subcommand", "group"}
            => MapGet(commands, modules[t.owner].name) = t.owner)
    /\ [](\A i \in WindowInteractions : Awaited(i)
            => ResolveSubcommand(modules[MapGet(commands, i.commandName)],
                                 i.group, i.subcommand) = Nil)
    /\ [][cur = NoInteraction /\ cur' # NoInteraction /\ Awaited(DispatchInputs(cur'))
            => \A k \in DOMAIN runs' :
                  /\ runs'[k].invoked = <<[module |-> ModifyIndexJs, fn |-> "execute",
                                           synth |-> TRUE]>>
                  /\ Len(runs'[k].sent) = 1
                  /\ runs'[k].sent[1].content = "SubcommandNotFound"
                  /\ runs'[k].sent[1].subject = cur'.subcommand]_vars

C37_Witness ==
    /\ cur.commandName = "modify" /\ cur.group = "grp" /\ cur.subcommand = "del"
    /\ \E t \in pending : t.op = "groupSubcommand" /\ t.path = DelJs
    /\ MapGet(modules[ModifyIndexJs].subcommandGroups, "grp") = GrpIndexJs
    /\ MapGet(modules[ModifyIndexJs].subcommands, "add") = AddJs
    /\ Len(runs) = 1
    /\ runs[1].sent = <<[Message("SubcommandNotFound", "del") EXCEPT !.op = "reply"]>>


(***************************************************************************)
(* SpecGuarded: components and chat-input interactions from every origin   *)
(* over commands that carry a permission requirement                       *)
(***************************************************************************)
Guarded(def, path) ==
    IF path \in {PingJs, ModifyIndexJs}
    THEN [def EXCEPT !.permissions = {"ManageGuild"}]
    ELSE def

GuardedFS ==
    [p \in DOMAIN EquippedFS({}) |-> [EquippedFS({})[p] EXCEPT !.def = Guarded(@, p)]]

\* the module cache once GuardedFS is loaded
GuardedModules ==
    [p \in DOMAIN EquippedModules({}) |->
        WithDefaultPermissions(Guarded(EquippedModules({})[p], p))]

InitGuarded ==
    /\ files = GuardedFS
    /\ modules = GuardedModules
    /\ commands = <<<<"ping", PingJs>>, <<"modify", ModifyIndexJs>>>>
    /\ ctxUser = <<<<"report", ReportJs>>>>
    /\ ctxMessage = <<<<"pin", PinJs>>>>
    /\ modals = <<<<"form", FormJs>>, <<"ping", PingModalJs>>>>
    /\ pending = {}
    /\ rejected = {}
    /\ calls = {[fn |-> "loadCommandsFrom", url |-> URL(CommandsDir, TRUE), n |-> 0],
                 [fn |-> "loadContextMenusFrom", url |-> URL(ContextsDir, TRUE), n |-> 0],
                 [fn |-> "loadModalsFrom", url |-> URL(ModalsDir, TRUE), n |-> 0]}
    /\ handlers = 0
    /\ cur = NoInteraction
    /\ runs = <<>>
    /\ subscriptions = <<>>
    /\ emissions = <<>>
    /\ stalled = <<>>
    /\ login = IdleLogin
    /\ exited = FALSE
    /\ store = <<>>
    /\ env = DefaultEnv
    /\ lifetime = 1

GuardedCustomIds ==
    {<<"ping", "btn1", "a">>, <<"ping", "m1">>, <<"modify", "add", "sel1">>,
     <<"modify", "add", "btn1", "a">>, <<"modify", "grp", "del", "btn1">>,
     <<"modify", "grp", "del", "m1", "a">>, <<"ping", "bad">>, <<"foo", "btn1">>}

GuardedInteractions ==
    {[kind |-> k, commandName |-> Null, group |-> Null, subcommand |-> Null,
      customId |-> c, inGuild |-> o.inGuild, memberPerms |-> o.memberPerms] :
        k \in ComponentKinds, c \in GuardedCustomIds, o \in Origins}
    \cup {i \in ChatInputs :
            /\ i.commandName \in {"ping", "modify"}
            /\ <<i.group, i.subcommand>> \in {<<Null, Null>>, <<Null, "add">>, <<"grp", "del">>}}

NextGuarded ==
    \/ UseDefaultInteractionHandler
    \/ cur = NoInteraction /\ \E i \in GuardedInteractions, beh \in Behaviours : Emit(i, beh)
    \/ EmissionDone

SpecGuarded == InitGuarded /\ [][NextGuarded]_vars

\* the permission requirement of the command blocks the member's chat input
BlockedAsChatInput(owner, i) ==
    /\ i.inGuild
    /\ modules[owner].permissions # NoPerm
    /\ ~Has(i.memberPerms, modules[owner].permissions)

\* C38: component routing never checks permissions: a button, select-menu
\* or modal interaction that resolves to a sub-executor has it invoked by
\* every listener whatever the member's permissions and guild origin, and
\* gets no no-permission reply, also when the owning command carries a
\* requirement under which the same member's chat-input invocation is
\* refused without running an executor.
C38_ComponentsIgnorePermissions ==
    /\ (cur.kind \in ComponentKinds /\ RoutedTo # {})
          => \A k \in DOMAIN runs :
                /\ Len(runs[k].handled) = 1
                /\ runs[k].handled[1] \in RoutedTo
                /\ \A m \in DOMAIN runs[k].sent :
                      runs[k].sent[m].content # "NoPermissionCommand"
    /\ (cur.kind = "ChatInput" /\ BlockedAsChatInput(MapGet(commands, cur.commandName), cur))
          => \A k \in DOMAIN runs : runs[k].invoked = <<>> /\ runs[k].handled = <<>>

C38_Witness ==
    /\ cur.kind = "Button" /\ cur.customId = <<"ping", "btn1", "a">>
    /\ cur.inGuild /\ cur.memberPerms = {}
    /\ BlockedAsChatInput(PingJs, cur)
    /\ Len(runs) = 2
    /\ \A k \in DOMAIN runs :
          runs[k].handled = <<[module |-> PingJs, fn |-> "buttons", key |-> "btn1",
                               args |-> <<"a">>]>>


(***************************************************************************)
(* SpecHyphen: custom ids built from names that contain "-"                *)
(***************************************************************************)
MyCmdJs == CommandsDir \o <<"my-cmd.js">>

MyJs == CommandsDir \o <<"my.js">>

AddOnJs == ModifyDir \o <<"add-on.js">>

MyFormJs == ModalsDir \o <<"my-form.js">>

\* name.split("-") for the names of the sample folder
Pieces(name) ==
    CASE name = "my-cmd"   -> <<"my", "cmd">>
      [] name = "my-form"  -> <<"my", "form">>
      [] name = "add-on"   -> <<"add", "on">>
      [] name = "b-1"      -> <<"b", "1">>
      [] name = "a-b"      -> <<"a", "b">>
      [] name = "un-known" -> <<"un", "known">>
      [] OTHER             -> <<name>>

RECURSIVE Flat(_)
Flat(seqs) == IF seqs = <<>> THEN <<>> ELSE Head(seqs) \o Flat(Tail(seqs))

\* a split at the separators the author of the custom id put between the names
SplitAtSeparators(parts) == parts

\* customId.split("-"), customId being the names in parts joined with "-":
\* every "-" separates, those inside a name too
Split(parts) == Flat([k \in DOMAIN parts |-> Pieces(parts[k])])

HyphenFS ==
    [p \in DOMAIN EquippedFS({}) |->
        IF p = PingJs THEN [EquippedFS({})[p] EXCEPT !.def.buttons = {"btn1", "b-1", "b"}]
        ELSE EquippedFS({})[p]]
    @@ (MyCmdJs :> FileEntry([CommandData("my-cmd", NoPerm) EXCEPT
                                 !.buttons = {"btn1"}, !.modals = {"m1"}]))
    @@ (MyJs :> FileEntry([CommandData("my", NoPerm) EXCEPT
                              !.buttons = {"cmd"}, !.modals = {"form"}]))
    @@ (AddOnJs :> FileEntry([SubcommandData("add-on") EXCEPT !.buttons = {"btn1"}]))
    @@ (MyFormJs :> FileEntry(ModalData("my-form")))

\* the module cache once HyphenFS is loaded
HyphenModules ==
    [p \in DOMAIN EquippedModules({}) |->
        CASE p = PingJs -> HyphenFS[p].def
          [] p = ModifyIndexJs ->
               [EquippedModules({})[p] EXCEPT
                   !.options = <<AddJs, AddOnJs, GrpIndexJs>>,
                   !.subcommands = <<<<"add", AddJs>>, <<"add-on", AddOnJs>>>>]
          [] OTHER -> EquippedModules({})[p]]
    @@ (MyCmdJs :> HyphenFS[MyCmdJs].def) @@ (MyJs :> HyphenFS[MyJs].def)
    @@ (AddOnJs :> HyphenFS[AddOnJs].def) @@ (MyFormJs :> HyphenFS[MyFormJs].def)

InitHyphen ==
    /\ files = HyphenFS
    /\ modules = HyphenModules
    /\ commands = <<<<"ping", PingJs>>, <<"modify", ModifyIndexJs>>, <<"my-cmd", MyCmdJs>>,
                    <<"my", MyJs>>>>
    /\ ctxUser = <<<<"report", ReportJs>>>>
    /\ ctxMessage = <<<<"pin", PinJs>>>>
    /\ modals = <<<<"form", FormJs>>, <<"ping", PingModalJs>>, <<"my-form", MyFormJs>>>>
    /\ pending = {}
    /\ rejected = {}
    /\ calls = {[fn |-> "loadCommandsFrom", url |-> URL(CommandsDir, TRUE), n |-> 0],
                 [fn |-> "loadContextMenusFrom", url |-> URL(ContextsDir, TRUE), n |-> 0],
                 [fn |-> "loadModalsFrom", url |-> URL(ModalsDir, TRUE), n |-> 0]}
    /\ handlers = 0
    /\ cur = NoInteraction
    /\ runs = <<>>
    /\ subscriptions = <<>>
    /\ emissions = <<>>
    /\ stalled = <<>>
    /\ login = IdleLogin
    /\ exited = FALSE
    /\ store = <<>>
    /\ env = DefaultEnv
    /\ lifetime = 1

\* the names a custom id was built from, joined with "-"
HyphenIds ==
    {<<"my-cmd", "btn1">>, <<"my-cmd", "btn1", "a">>, <<"my-cmd", "m1">>,
     <<"ping", "b-1">>, <<"ping", "b-1", "a">>, <<"ping", "btn1", "a-b">>,
     <<"my-form", "a">>, <<"modify", "add-on", "btn1">>, <<"modify", "add", "btn1">>,
     <<"my", "cmd", "a">>, <<"un-known", "x">>, <<"form", "a-b">>}

HyphenInteractions ==
    {[kind |-> k, commandName |-> Null, group |-> Null, subcommand |-> Null,
      customId |-> Split(parts), raw |-> parts, inGuild |-> TRUE, memberPerms |-> {}] :
        k \in ComponentKinds, parts \in HyphenIds}

NextHyphen ==
    \/ UseDefaultInteractionHandler
    \/ cur = NoInteraction /\ \E i \in HyphenInteractions, beh \in Behaviours : Emit(i, beh)
    \/ EmissionDone

SpecHyphen == InitHyphen /\ [][NextHyphen]_vars

Hyphenated(name) == Len(Pieces(name)) > 1

\* C39: component routing splits the custom id on every "-" and looks the
\* first segment up alone: a command, flat modal, subcommand or handler id
\* whose own name contains "-" is never the one selected, and an id that
\* begins with such a name is routed to the command named by the text
\* before the first "-" when that command is registered.
C39_HyphenatedNamesNeverSelected ==
    cur # NoInteraction =>
        /\ cur.customId = Split(cur.raw)
        /\ \A k \in DOMAIN runs : \A m \in DOMAIN runs[k].handled :
              LET h == runs[k].handled[m]
              IN  /\ ~Hyphenated(modules[h.module].name)
                  /\ h.key # Null => ~Hyphenated(h.key)
        /\ (Hyphenated(cur.raw[1]) /\ MapGet(commands, Pieces(cur.raw[1])[1]) # Nil)
              => \A k \in DOMAIN runs :
                    /\ Len(runs[k].handled) <= 1
                    /\ \A m \in DOMAIN runs[k].handled :
                          /\ runs[k].handled[m].module = MapGet(commands, Pieces(cur.raw[1])[1])
                          /\ runs[k].handled[m].key = Pieces(cur.raw[1])[2]
                          /\ runs[k].handled[m].args = SubSeq(cur.customId, 3, Len(cur.customId))

C39_Witness ==
    /\ cur.kind = "Button" /\ cur.raw = <<"my-cmd", "btn1", "a">>
    /\ MapGet(commands, "my-cmd") = MyCmdJs
    /\ "btn1" \in modules[MyCmdJs].buttons
    /\ Len(runs) = 1
    /\ runs[1].handled = <<[module |-> MyJs, fn |-> "buttons", key |-> "cmd",
                            args |-> <<"btn1", "a">>]>>


(***************************************************************************)
(* Repeated installation of the default handler (SpecDispatch)             *)
(***************************************************************************)
\* the platform emits a chat-input interaction in this step
EmitsChatInput == cur = NoInteraction /\ cur' # NoInteraction /\ cur'.kind = "ChatInput"

\* C40: every call of useDefaultInteractionHandler installs one more
\* listener and none is removed: with n installed, one chat-input
\* interaction is handled n times, the executor of a registered command
\* being invoked once by each listener, and an unknown command getting n
\* not-found reply attempts, of which the first is sent and the others are
\* refused by the platform.
C40_EveryInstallationAddsAListener ==
    /\ [][handlers' = handlers \/ handlers' = handlers + 1]_vars
    /\ [][EmitsChatInput =>
            LET path == MapGet(commands, cur'.commandName)
            IN  /\ Len(runs') = handlers
                /\ (path # Nil /\ ~BlockedAsChatInput(path, cur'))
                      => \A k \in DOMAIN runs' :
                            /\ runs'[k].invoked # <<>>
                            /\ runs'[k].invoked[1] =
                                  [module |-> path, fn |-> "execute",
                                   synth |-> (modules[path].execute = "synth")]
                /\ path = Nil
                      => \A k \in DOMAIN runs' :
                            /\ runs'[k].invoked = <<>>
                            /\ IF k = 1
                               THEN /\ runs'[k].sent =
                                         <<[CommandNotFound(cur'.commandName) EXCEPT
                                               !.op = "reply"]>>
                                    /\ ~runs'[k].thrown
                               ELSE runs'[k].sent = <<>> /\ runs'[k].thrown]_vars

C40_Witness ==
    /\ handlers = 2
    /\ cur.kind = "ChatInput" /\ cur.commandName = "ping"
    /\ cur.beh = [ack |-> "reply", fails |-> FALSE]
    /\ Len(runs) = 2
    /\ \A k \in DOMAIN runs :
          runs[k].invoked = <<[module |-> PingJs, fn |-> "execute", synth |-> FALSE]>>

====
